---- MODULE Spec2Model ----
(***************************************************************************)
(* NoQLi: the argument parser (pkg/parser.go) and the command handlers     *)
(* (pkg/database.go, pkg/handle_get.go, pkg/handle_update.go,              *)
(* pkg/handle_delete.go, cmd/noqli/main.go) as a state machine over one    *)
(* MySQL session.                                                          *)
(*                                                                         *)
(* Texts are TLA+ strings; a character is a string of length 1.  A Go      *)
(* value of type any is a record tagged by kind:                           *)
(*   int    dec   the decimal text of a Go int (64 bits wide)              *)
(*   float  dec   the JSON number literal a float64 was decoded from       *)
(*   str    s     a Go string                                              *)
(*   bool   b     / null                                                   *)
(*   list   elems a []any                                                  *)
(*   strs   elems a []string                                               *)
(*   range  lo hi a map[string]any{"range": []int{lo, hi}}                  *)
(*   map    m     any other map[string]any                                 *)
(* A map[string]any is a function from key texts to such values.           *)
(***************************************************************************)
EXTENDS Integers, Sequences, FiniteSets, TLC

(***************************************************************************)
(* Bounds of the model.                                                    *)
(***************************************************************************)
MaxDigits == 2
MaxJunkLen == 3
MaxClauses == 3
MaxSteps == 2

(***************************************************************************)
(* Strings.                                                                *)
(***************************************************************************)
Ch(s, i) == SubSeq(s, i, i)

From(s, i) == SubSeq(s, i, Len(s))

DigitChars == {"0", "1", "2", "3", "4", "5", "6", "7", "8", "9"}

DigitVal == [c \in DigitChars |->
               CASE c = "0" -> 0 [] c = "1" -> 1 [] c = "2" -> 2 [] c = "3" -> 3
                 [] c = "4" -> 4 [] c = "5" -> 5 [] c = "6" -> 6 [] c = "7" -> 7
                 [] c = "8" -> 8 [] c = "9" -> 9]

LetterChars == {"a", "b", "c", "d", "e", "f", "g", "h", "i", "j", "k", "l", "m",
                "n", "o", "p", "q", "r", "s", "t", "u", "v", "w", "x", "y", "z",
                "A", "B", "C", "D", "E", "F", "G", "H", "I", "J", "K", "L", "M",
                "N", "O", "P", "Q", "R", "S", "T", "U", "V", "W", "X", "Y", "Z"}

\* \w of the regexp package
WordChars == DigitChars \cup LetterChars \cup {"_"}

\* \s of the regexp package; strings.TrimSpace cuts the same characters of the
\* texts used here (space, \t, \n, \r)
SpaceChars == {" ", "\t", "\n", "\r"}

HasPrefix(s, p) == Len(s) >= Len(p) /\ SubSeq(s, 1, Len(p)) = p

HasSuffix(s, p) == Len(s) >= Len(p) /\ SubSeq(s, Len(s) - Len(p) + 1, Len(s)) = p

\* the first index >= i of s whose character is not in set, Len(s) + 1 if none
RECURSIVE SkipWhile(_, _, _)
SkipWhile(s, i, set) ==
  IF i <= Len(s) /\ Ch(s, i) \in set THEN SkipWhile(s, i + 1, set) ELSE i

\* the first index >= i of s whose character is in set, Len(s) + 1 if none
RECURSIVE SkipUntil(_, _, _)
SkipUntil(s, i, set) ==
  IF i <= Len(s) /\ Ch(s, i) \notin set THEN SkipUntil(s, i + 1, set) ELSE i

\* the last index <= i of s whose character is not in set, 0 if none
RECURSIVE SkipBack(_, _, _)
SkipBack(s, i, set) ==
  IF i >= 1 /\ Ch(s, i) \in set THEN SkipBack(s, i - 1, set) ELSE i

\* strings.Trim(s, cutset)
Trim(s, set) ==
  LET a == SkipWhile(s, 1, set)
      b == SkipBack(s, Len(s), set)
  IN  IF a > b THEN "" ELSE SubSeq(s, a, b)

TrimSpace(s) == Trim(s, SpaceChars)

\* strings.Index, 1-based; 0 when sub does not occur in s
RECURSIVE IndexFrom(_, _, _)
IndexFrom(s, sub, i) ==
  IF i + Len(sub) - 1 > Len(s) THEN 0
  ELSE IF SubSeq(s, i, i + Len(sub) - 1) = sub THEN i
  ELSE IndexFrom(s, sub, i + 1)

Index(s, sub) == IndexFrom(s, sub, 1)

\* strings.Replace(s, old, "", 1)
RemoveFirst(s, old) ==
  LET i == Index(s, old)
  IN  IF i = 0 THEN s
      ELSE SubSeq(s, 1, i - 1) \o SubSeq(s, i + Len(old), Len(s))

\* strings.Replace(s, "'", "\"", -1)
RECURSIVE QuotesToDouble(_)
QuotesToDouble(s) ==
  IF s = "" THEN ""
  ELSE (IF Head(s) = "'" THEN "\"" ELSE Head(s)) \o QuotesToDouble(Tail(s))

\* strings.Split(s, sep) for a separator of one character
RECURSIVE Split(_, _)
Split(s, sep) ==
  LET i == Index(s, sep)
  IN  IF i = 0 THEN <<s>>
      ELSE <<SubSeq(s, 1, i - 1)>> \o Split(From(s, i + 1), sep)

\* strings.SplitN(s, sep, 2)
SplitN2(s, sep) ==
  LET i == Index(s, sep)
  IN  IF i = 0 THEN <<s>> ELSE <<SubSeq(s, 1, i - 1), From(s, i + 1)>>

(***************************************************************************)
(* strconv.Atoi on a 64-bit int.  An int is carried as its decimal text,   *)
(* so that the values near the ends of the range are the real ones.        *)
(***************************************************************************)
MaxIntDec == "9223372036854775807"

MinIntMag == "9223372036854775808"

IsDigits(s) == Len(s) >= 1 /\ \A i \in 1..Len(s) : Ch(s, i) \in DigitChars

\* a digit string without its leading zeros ("0" for zero)
StripZeros(s) ==
  LET i == SkipWhile(s, 1, {"0"})
  IN  IF i > Len(s) THEN "0" ELSE From(s, i)

RECURSIVE LexLess(_, _)
LexLess(a, b) ==
  IF a = "" THEN FALSE
  ELSE IF Head(a) # Head(b) THEN DigitVal[Head(a)] < DigitVal[Head(b)]
  ELSE LexLess(Tail(a), Tail(b))

\* a < b for two magnitudes without leading zeros
MagLess(a, b) == Len(a) < Len(b) \/ (Len(a) = Len(b) /\ LexLess(a, b))

Atoi(s) ==
  LET neg  == s # "" /\ Head(s) = "-"
      body == IF s # "" /\ Head(s) \in {"+", "-"} THEN Tail(s) ELSE s
      mag  == StripZeros(body)
  IN  IF ~IsDigits(body) THEN [ok |-> FALSE, dec |-> "0"]
      ELSE IF neg
      THEN IF MagLess(MinIntMag, mag) THEN [ok |-> FALSE, dec |-> "-" \o MinIntMag]
           ELSE [ok |-> TRUE, dec |-> IF mag = "0" THEN "0" ELSE "-" \o mag]
      ELSE IF MagLess(MaxIntDec, mag) THEN [ok |-> FALSE, dec |-> MaxIntDec]
           ELSE [ok |-> TRUE, dec |-> mag]

(***************************************************************************)
(* Values.                                                                 *)
(***************************************************************************)
IntV(dec) == [kind |-> "int", dec |-> dec]

FloatV(lit) == [kind |-> "float", dec |-> lit]

StrV(s) == [kind |-> "str", s |-> s]

BoolV(b) == [kind |-> "bool", b |-> b]

NullV == [kind |-> "null"]

ListV(elems) == [kind |-> "list", elems |-> elems]

StrsV(elems) == [kind |-> "strs", elems |-> elems]

RangeV(lo, hi) == [kind |-> "range", lo |-> lo, hi |-> hi]

MapV(m) == [kind |-> "map", m |-> m]

EmptyMap == [k \in {} |-> NullV]

Put(m, k, v) == [y \in DOMAIN m \cup {k} |-> IF y = k THEN v ELSE m[y]]

Del(m, k) == [y \in DOMAIN m \ {k} |-> m[y]]

(***************************************************************************)
(* encoding/json: json.Unmarshal into an any or a map[string]any.  Numbers *)
(* decode to float64, arrays to []any, objects to map[string]any (the last *)
(* of two equal keys wins).  The texts of this model hold no backslash, so *)
(* a string literal runs to the next double quote.                         *)
(***************************************************************************)
JsonFail == [ok |-> FALSE, val |-> NullV, next |-> 0]

JsonOk(v, n) == [ok |-> TRUE, val |-> v, next |-> n]

\* a string literal starting at the double quote at i
JsonString(s, i) ==
  LET j == SkipUntil(s, i + 1, {"\"", "\\", "\t", "\n", "\r"})
  IN  IF j <= Len(s) /\ Ch(s, j) = "\"" THEN JsonOk(SubSeq(s, i + 1, j - 1), j + 1)
      ELSE JsonFail

\* a number literal starting at i: -? (0 | [1-9][0-9]*) (. [0-9]+)? ([eE] [+-]? [0-9]+)?
JsonNumber(s, i) ==
  LET a  == IF Ch(s, i) = "-" THEN i + 1 ELSE i
      b  == IF a <= Len(s) /\ Ch(s, a) = "0" THEN a + 1
            ELSE SkipWhile(s, a, DigitChars)
      c  == IF b <= Len(s) /\ Ch(s, b) = "." THEN SkipWhile(s, b + 1, DigitChars) ELSE b
      e0 == IF c <= Len(s) /\ Ch(s, c) \in {"e", "E"}
            THEN (IF c + 1 <= Len(s) /\ Ch(s, c + 1) \in {"+", "-"} THEN c + 2 ELSE c + 1)
            ELSE c
      d  == IF e0 > c THEN SkipWhile(s, e0, DigitChars) ELSE c
  IN  IF b = a THEN JsonFail
      ELSE IF c = b + 1 THEN JsonFail
      ELSE IF e0 > c /\ d = e0 THEN JsonFail
      ELSE JsonOk(FloatV(SubSeq(s, i, d - 1)), d)

JsonLiteral(s, i) ==
  IF HasPrefix(From(s, i), "true") THEN JsonOk(BoolV(TRUE), i + 4)
  ELSE IF HasPrefix(From(s, i), "false") THEN JsonOk(BoolV(FALSE), i + 5)
  ELSE IF HasPrefix(From(s, i), "null") THEN JsonOk(NullV, i + 4)
  ELSE JsonFail

RECURSIVE JsonValue(_, _), JsonElems(_, _, _), JsonMembers(_, _, _)
\* the value starting at or after i (white space skipped)
JsonValue(s, i0) ==
  LET i == SkipWhile(s, i0, SpaceChars)
  IN  IF i > Len(s) THEN JsonFail
      ELSE IF Ch(s, i) = "\"" THEN
        LET r == JsonString(s, i)
        IN  IF r.ok THEN JsonOk(StrV(r.val), r.next) ELSE JsonFail
      ELSE IF Ch(s, i) \in DigitChars \cup {"-"} THEN JsonNumber(s, i)
      ELSE IF Ch(s, i) = "[" THEN
        LET j == SkipWhile(s, i + 1, SpaceChars)
        IN  IF j <= Len(s) /\ Ch(s, j) = "]" THEN JsonOk(ListV(<<>>), j + 1)
            ELSE JsonElems(s, i + 1, <<>>)
      ELSE IF Ch(s, i) = "{" THEN
        LET j == SkipWhile(s, i + 1, SpaceChars)
        IN  IF j <= Len(s) /\ Ch(s, j) = "}" THEN JsonOk(MapV(EmptyMap), j + 1)
            ELSE JsonMembers(s, i + 1, EmptyMap)
      ELSE JsonLiteral(s, i)

\* the elements of an array from i on, after the elements acc
JsonElems(s, i, acc) ==
  LET r == JsonValue(s, i)
      j == SkipWhile(s, r.next, SpaceChars)
  IN  IF ~r.ok \/ j > Len(s) THEN JsonFail
      ELSE IF Ch(s, j) = "]" THEN JsonOk(ListV(Append(acc, r.val)), j + 1)
      ELSE IF Ch(s, j) = "," THEN JsonElems(s, j + 1, Append(acc, r.val))
      ELSE JsonFail

\* the members of an object from i on, after the members acc
JsonMembers(s, i0, acc) ==
  LET i == SkipWhile(s, i0, SpaceChars)
      k == IF i <= Len(s) /\ Ch(s, i) = "\"" THEN JsonString(s, i) ELSE JsonFail
      c == SkipWhile(s, k.next, SpaceChars)
      r == JsonValue(s, c + 1)
      j == SkipWhile(s, r.next, SpaceChars)
  IN  IF ~k.ok \/ c > Len(s) \/ Ch(s, c) # ":" THEN JsonFail
      ELSE IF ~r.ok \/ j > Len(s) THEN JsonFail
      ELSE IF Ch(s, j) = "}" THEN JsonOk(MapV(Put(acc, k.val, r.val)), j + 1)
      ELSE IF Ch(s, j) = "," THEN JsonMembers(s, j + 1, Put(acc, k.val, r.val))
      ELSE JsonFail

\* json.Unmarshal([]byte(s), &v): one value and nothing but white space after it
JsonUnmarshal(s) ==
  LET r == JsonValue(s, 1)
  IN  IF r.ok /\ SkipWhile(s, r.next, SpaceChars) > Len(s) THEN [ok |-> TRUE, val |-> r.val]
      ELSE [ok |-> FALSE, val |-> NullV]

(***************************************************************************)
(* The regular expressions of parseObjectNotation.  Each is matched the    *)
(* way the regexp package does: leftmost start, then the greedy (or lazy)  *)
(* choice of every repetition; FindAll resumes after the end of a match.   *)
(***************************************************************************)
NoMatch == [ok |-> FALSE, full |-> "", g1 |-> "", g2 |-> "", end |-> 0]

\* \[([^\]]+)\]\s*=\s*([^,}]+) anchored at i
ArrayFieldAt(s, i) ==
  LET j  == SkipUntil(s, i + 1, {"]"})
      k  == SkipWhile(s, j + 1, SpaceChars)
      e  == SkipUntil(s, k + 1, {",", "}"})
      v0 == SkipWhile(s, k + 1, SpaceChars)
      v  == IF v0 >= e THEN e - 1 ELSE v0
  IN  IF Ch(s, i) # "[" \/ j = i + 1 \/ j > Len(s) THEN NoMatch
      ELSE IF k > Len(s) \/ Ch(s, k) # "=" THEN NoMatch
      ELSE IF e = k + 1 THEN NoMatch
      ELSE [ok |-> TRUE, full |-> SubSeq(s, i, e - 1), g1 |-> SubSeq(s, i + 1, j - 1),
            g2 |-> SubSeq(s, v, e - 1), end |-> e]

\* id\s*:\s*\(([^,]+),([^)]+)\) anchored at i
RangeAt(s, i) ==
  LET c == SkipWhile(s, i + 2, SpaceChars)
      p == SkipWhile(s, c + 1, SpaceChars)
      m == SkipUntil(s, p + 1, {","})
      q == SkipUntil(s, m + 1, {")"})
  IN  IF ~HasPrefix(From(s, i), "id") THEN NoMatch
      ELSE IF c > Len(s) \/ Ch(s, c) # ":" THEN NoMatch
      ELSE IF p > Len(s) \/ Ch(s, p) # "(" THEN NoMatch
      ELSE IF m = p + 1 \/ m > Len(s) THEN NoMatch
      ELSE IF q = m + 1 \/ q > Len(s) THEN NoMatch
      ELSE [ok |-> TRUE, full |-> SubSeq(s, i, q), g1 |-> SubSeq(s, p + 1, m - 1),
            g2 |-> SubSeq(s, m + 1, q - 1), end |-> q + 1]

\* (\w+)\s*:\s*\[(.*?)\] anchored at i
ArrayAt(s, i) ==
  LET w == SkipWhile(s, i, WordChars)
      c == SkipWhile(s, w, SpaceChars)
      b == SkipWhile(s, c + 1, SpaceChars)
      q == SkipUntil(s, b + 1, {"]", "\n"})
  IN  IF w = i THEN NoMatch
      ELSE IF c > Len(s) \/ Ch(s, c) # ":" THEN NoMatch
      ELSE IF b > Len(s) \/ Ch(s, b) # "[" THEN NoMatch
      ELSE IF q > Len(s) \/ Ch(s, q) # "]" THEN NoMatch
      ELSE [ok |-> TRUE, full |-> SubSeq(s, i, q), g1 |-> SubSeq(s, i, w - 1),
            g2 |-> SubSeq(s, b + 1, q - 1), end |-> q + 1]

\* arrayFieldRegex.FindAllStringSubmatch(s, -1), searched from i on
RECURSIVE FindAllArrayField(_, _)
FindAllArrayField(s, i) ==
  IF i > Len(s) THEN <<>>
  ELSE LET m == ArrayFieldAt(s, i)
       IN  IF m.ok THEN <<m>> \o FindAllArrayField(s, m.end)
           ELSE FindAllArrayField(s, i + 1)

\* rangeRegex.FindStringSubmatch(s), searched from i on
RECURSIVE FindRange(_, _)
FindRange(s, i) ==
  IF i > Len(s) THEN NoMatch
  ELSE LET m == RangeAt(s, i)
       IN  IF m.ok THEN m ELSE FindRange(s, i + 1)

\* arrayRegex.FindAllStringSubmatch(s, -1), searched from i on
RECURSIVE FindAllArray(_, _)
FindAllArray(s, i) ==
  IF i > Len(s) THEN <<>>
  ELSE LET m == ArrayAt(s, i)
       IN  IF m.ok THEN <<m>> \o FindAllArray(s, m.end)
           ELSE FindAllArray(s, i + 1)

\* regexp.MustCompile(`,\s*,`).ReplaceAllString(s, ","), from i on
RECURSIVE CollapseCommas(_, _)
CollapseCommas(s, i) ==
  IF i > Len(s) THEN ""
  ELSE LET j == SkipWhile(s, i + 1, SpaceChars)
       IN  IF Ch(s, i) = "," /\ j <= Len(s) /\ Ch(s, j) = ","
           THEN "," \o CollapseCommas(s, j + 1)
           ELSE Ch(s, i) \o CollapseCommas(s, i + 1)

\* regexp.MustCompile(`^,|,$`).ReplaceAllString(s, "")
StripEdgeCommas(s) ==
  LET t == IF HasPrefix(s, ",") THEN Tail(s) ELSE s
  IN  IF HasSuffix(t, ",") THEN SubSeq(t, 1, Len(t) - 1) ELSE t

(***************************************************************************)
(* pkg/parser.go                                                           *)
(***************************************************************************)
\* splitRespectingQuotes(str, ','): the parts of s from i on; cur is the part
\* being built and qc the open quote character ("" outside quotes)
RECURSIVE SplitQuoted(_, _, _, _, _)
SplitQuoted(s, i, qc, cur, acc) ==
  IF i > Len(s) THEN (IF Len(cur) > 0 THEN Append(acc, cur) ELSE acc)
  ELSE LET c == Ch(s, i)
       IN  IF c \in {"\"", "'"}
           THEN SplitQuoted(s, i + 1,
                            IF qc # "" /\ c = qc THEN "" ELSE IF qc = "" THEN c ELSE qc,
                            cur \o c, acc)
           ELSE IF c = "," /\ qc = ""
           THEN SplitQuoted(s, i + 1, qc, "", Append(acc, cur))
           ELSE SplitQuoted(s, i + 1, qc, cur \o c, acc)

splitRespectingQuotes(str) == SplitQuoted(str, 1, "", "", <<>>)

\* the value of a multi-field assignment (parser.go, lines 92-98)
DecodedOr(j, valueStr) == IF j.ok THEN j.val ELSE StrV(Trim(valueStr, {"'", "\""}))

AssignedValue(valueStr) == DecodedOr(JsonUnmarshal(valueStr), valueStr)

RECURSIVE AssignFields(_, _, _, _)
\* the faulty variant that assigns the first field only
AssignFields_FirstOnly(result, fields, i, value) ==
  IF i > 1 \/ Len(fields) = 0 THEN result
  ELSE Put(result, TrimSpace(fields[1]), value)

\* result[strings.TrimSpace(field)] = value for the fields from i on
AssignFields(result, fields, i, value) ==
  IF i > Len(fields) THEN result
  ELSE AssignFields(Put(result, TrimSpace(fields[i]), value), fields, i + 1, value)

\* the loop over the multi-field assignments (parser.go, lines 83-104)
RECURSIVE ArrayFieldLoop(_, _, _)
ArrayFieldLoop(matches, i, st) ==
  IF i > Len(matches) THEN st
  ELSE LET match == matches[i]
       IN  ArrayFieldLoop(matches, i + 1,
             [trimmed |-> RemoveFirst(st.trimmed, match.full),
              result  |-> AssignFields(st.result, Split(match.g1, ","), 1,
                                       AssignedValue(TrimSpace(match.g2)))])

\* one element of a list clause (parser.go, lines 152-166)
ArrayElement(elem) ==
  LET elemTrimmed == TrimSpace(elem)
  IN  IF (HasPrefix(elemTrimmed, "\"") /\ HasSuffix(elemTrimmed, "\""))
         \/ (HasPrefix(elemTrimmed, "'") /\ HasSuffix(elemTrimmed, "'"))
      THEN StrV(Trim(elemTrimmed, {"'", "\""}))
      ELSE IF Atoi(elemTrimmed).ok THEN IntV(Atoi(elemTrimmed).dec)
      ELSE StrV(elemTrimmed)

ArrayElements(arrayContent) ==
  LET elements == splitRespectingQuotes(arrayContent)
  IN  [i \in 1..Len(elements) |-> ArrayElement(elements[i])]

\* the loop over the list clauses (parser.go, lines 138-172)
RECURSIVE ArrayLoop(_, _, _)
ArrayLoop(matches, i, st) ==
  IF i > Len(matches) THEN st
  ELSE LET match == matches[i]
       IN  ArrayLoop(matches, i + 1,
             [trimmed |-> RemoveFirst(st.trimmed, match.full),
              result  |-> Put(st.result, match.g1, ListV(ArrayElements(match.g2)))])

\* the manual key:value fallback (parser.go, lines 182-204)
RECURSIVE ManualPairs(_, _, _)
ManualPairs(result, keyValuePairs, i) ==
  IF i > Len(keyValuePairs) THEN result
  ELSE LET parts    == SplitN2(keyValuePairs[i], ":")
           key      == TrimSpace(parts[1])
           valueStr == TrimSpace(parts[2])
       IN  IF Len(parts) # 2 THEN ManualPairs(result, keyValuePairs, i + 1)
           ELSE IF HasPrefix(valueStr, "[") /\ HasSuffix(valueStr, "]")
           THEN ManualPairs(result, keyValuePairs, i + 1)
           ELSE IF Atoi(valueStr).ok
           THEN ManualPairs(Put(result, key, IntV(Atoi(valueStr).dec)), keyValuePairs, i + 1)
           ELSE ManualPairs(Put(result, key, StrV(Trim(valueStr, {"'", "\""}))),
                            keyValuePairs, i + 1)

\* the merge of a decoded JSON object (parser.go, lines 207-212)
MergeJson(result, jsonObj) ==
  [k \in DOMAIN result \cup DOMAIN jsonObj |->
     IF k \in DOMAIN result THEN result[k] ELSE jsonObj[k]]

\* the residual key:value clauses (parser.go, lines 175-214)
MergedOrManual(result, trimmed, j) ==
  IF trimmed = "" THEN result
  ELSE IF j.ok /\ j.val.kind = "map" THEN MergeJson(result, j.val.m)
  ELSE ManualPairs(result, Split(trimmed, ","), 1)

Residual(result, trimmed) ==
  MergedOrManual(result, trimmed, JsonUnmarshal("{" \o QuotesToDouble(trimmed) \o "}"))

ParseOk(m) == [err |-> "none", isNil |-> FALSE, m |-> m]

ParseNil == [err |-> "none", isNil |-> TRUE, m |-> EmptyMap]

ParseErr(e) == [err |-> e, isNil |-> TRUE, m |-> EmptyMap]

\* the faulty variant that puts the smaller bound first
RangeStep_Ordered(st1, rangeMatches, start, end) ==
  [range   |-> rangeMatches, start |-> start, end |-> end,
   trimmed |-> IF rangeMatches.ok THEN RemoveFirst(st1.trimmed, rangeMatches.full)
               ELSE st1.trimmed,
   result  |-> IF ~rangeMatches.ok THEN st1.result
               ELSE IF MagLess(end.dec, start.dec)
               THEN Put(st1.result, "id", RangeV(end.dec, start.dec))
               ELSE Put(st1.result, "id", RangeV(start.dec, end.dec))]

\* the id range (parser.go, lines 109-126) applied to the text and map st1 left
\* by the multi-field assignments; start and end are what Atoi made of the bounds
RangeStep(st1, rangeMatches, start, end) ==
  [range   |-> rangeMatches, start |-> start, end |-> end,
   trimmed |-> IF rangeMatches.ok THEN RemoveFirst(st1.trimmed, rangeMatches.full)
               ELSE st1.trimmed,
   result  |-> IF rangeMatches.ok THEN Put(st1.result, "id", RangeV(start.dec, end.dec))
               ELSE st1.result]

RangeBounds(st1, rangeMatches) ==
  RangeStep(st1, rangeMatches, Atoi(TrimSpace(rangeMatches.g1)),
            Atoi(TrimSpace(rangeMatches.g2)))

\* the list clauses (parser.go, lines 133-172) taken from the cleaned text trimmed3
ListStep(inner, st2, trimmed3) ==
  [inner |-> inner, range |-> st2.range, start |-> st2.start, end |-> st2.end,
   cleaned |-> trimmed3,
   listed  |-> ArrayLoop(FindAllArray(trimmed3, 1), 1,
                         [trimmed |-> trimmed3, result |-> st2.result])]

\* the clean-up of the text (parser.go, lines 128-131)
CleanStep(inner, st2) ==
  ListStep(inner, st2, StripEdgeCommas(CollapseCommas(TrimSpace(st2.trimmed), 1)))

RangeStage(inner, st1) == CleanStep(inner, RangeBounds(st1, FindRange(st1.trimmed, 1)))

\* the multi-field assignments (parser.go, lines 78-104) taken from the inner text
AssignStage(inner) ==
  RangeStage(inner, ArrayFieldLoop(FindAllArrayField(inner, 1), 1,
                                   [trimmed |-> inner, result |-> EmptyMap]))

\* the working text and the result map after the extraction steps of
\* parseObjectNotation (lines 73-172): the inner text, the id range found and
\* its bounds, the cleaned text, and the text and map left by the list clauses
Stages(str) == AssignStage(TrimSpace(SubSeq(str, 2, Len(str) - 1)))

\* what parseObjectNotation returns once the extraction steps have run
StagesResult(st) ==
  IF st.range.ok /\ ~st.start.ok THEN ParseErr("invalid range start")
  ELSE IF st.range.ok /\ ~st.end.ok THEN ParseErr("invalid range end")
  ELSE ParseOk(Residual(st.listed.result, st.listed.trimmed))

parseObjectNotation(str) == StagesResult(Stages(str))

\* the faulty variant that does not look for the closing brace
IsObjectNotation_PrefixOnly(trimmed) == HasPrefix(trimmed, "{")

\* the test for object notation in ParseArg (line 50)
IsObjectNotation(trimmed) == HasPrefix(trimmed, "{") /\ HasSuffix(trimmed, "}")

ParseArg(str) ==
  LET trimmed == TrimSpace(str)
  IN  IF str = "" THEN ParseNil
      ELSE IF IsDigits(trimmed) THEN ParseOk(Put(EmptyMap, "id", IntV(Atoi(trimmed).dec)))
      ELSE IF IsObjectNotation(trimmed) THEN parseObjectNotation(trimmed)
      ELSE ParseErr("invalid argument format")

(***************************************************************************)
(* The MySQL server behind the *sql.DB handle.  A table is a record        *)
(*   cols    the column names in SHOW COLUMNS order,                       *)
(*   rows    a function from the ids in use to a row (column -> cell),     *)
(*   nextId  the AUTO_INCREMENT counter.                                   *)
(* A cell is <<>> (NULL) or <<text>>.  The tables are keyed by             *)
(* <<database, table>>.                                                    *)
(***************************************************************************)
Databases == {"shop", "blog", "global"}

TableIds == {<<"shop", "users">>, <<"blog", "posts">>}

MaxId == 4

Digit == [n \in 0..9 |-> Ch("0123456789", n + 1)]

\* the decimal text of a small natural number
RECURSIVE ToDec(_)
ToDec(n) == IF n < 10 THEN Digit[n] ELSE ToDec(n \div 10) \o Digit[n % 10]

NullCell == <<>>

\* what the driver binds for a value, and whether it can bind it at all
\* (database/sql rejects slices and maps before the statement is sent)
DriverOk(v) == v.kind \in {"int", "float", "str", "bool", "null"}

CellOf(v) ==
  CASE v.kind \in {"int", "float"} -> <<v.dec>>
    [] v.kind = "str"  -> <<v.s>>
    [] v.kind = "bool" -> <<IF v.b THEN "1" ELSE "0">>
    [] OTHER           -> NullCell

\* a signed decimal text as sign and magnitude; a text that is no integer counts as 0
NumOf(t) ==
  LET a == Atoi(t)
  IN  IF a.ok THEN a.dec ELSE "0"

\* a <= b for two canonical signed decimal texts
DecLeq(a, b) ==
  LET na == HasPrefix(a, "-")
      nb == HasPrefix(b, "-")
  IN  IF na /\ ~nb THEN TRUE
      ELSE IF ~na /\ nb THEN FALSE
      ELSE IF na THEN ~MagLess(Tail(a), Tail(b))
      ELSE ~MagLess(b, a)

\* one condition of a WHERE clause against one row
CondHolds(row, c) ==
  LET cell == row[c.field]
  IN  CASE c.op = "never"   -> FALSE
        [] c.op = "eq"      -> cell # NullCell /\ c.values[1].kind # "null"
                               /\ cell = CellOf(c.values[1])
        [] c.op = "in"      -> cell # NullCell
                               /\ \E i \in 1..Len(c.values) : cell = CellOf(c.values[i])
        [] c.op = "between" -> cell # NullCell
                               /\ DecLeq(c.values[1].dec, NumOf(cell[1]))
                               /\ DecLeq(NumOf(cell[1]), c.values[2].dec)

\* the rows of a table that satisfy all the conditions
Matching(tbl, where) ==
  {i \in DOMAIN tbl.rows : \A c \in where : CondHolds(tbl.rows[i], c)}

\* the values bound to the placeholders of a WHERE clause
WhereValues(where) ==
  UNION {{c.values[i] : i \in 1..Len(c.values)} : c \in where}

\* whether the server accepts a WHERE clause: every column exists and no IN () is empty
WhereOk(tbl, where) ==
  \A c \in where :
    /\ c.op = "never" \/ \E i \in 1..Len(tbl.cols) : tbl.cols[i] = c.field
    /\ c.op = "in" => Len(c.values) > 0

\* ALTER TABLE t ADD COLUMN `col` VARCHAR(255)
AddColumn(tbl, col) ==
  [tbl EXCEPT !.cols = Append(@, col),
              !.rows = [i \in DOMAIN @ |-> Put(@[i], col, NullCell)]]

\* UPDATE t SET ... WHERE ...: the table after it and the rows it changed
UpdatedRow(row, set) == [c \in DOMAIN row |-> IF c \in DOMAIN set THEN CellOf(set[c]) ELSE row[c]]

UpdateRows(tbl, set, where) ==
  [tbl EXCEPT !.rows = [i \in DOMAIN @ |->
     IF i \in Matching(tbl, where) THEN UpdatedRow(@[i], set) ELSE @[i]]]

Affected(tbl, set, where) ==
  {i \in Matching(tbl, where) : UpdatedRow(tbl.rows[i], set) # tbl.rows[i]}

\* DELETE FROM t WHERE ...
DeleteRows(tbl, where) ==
  [tbl EXCEPT !.rows = [i \in DOMAIN @ \ Matching(tbl, where) |-> @[i]]]

\* INSERT INTO t (...) VALUES (...): the id the new row gets, 0 when the server
\* rejects the row (an id that is in use or is no positive number)
InsertId(tbl, values) ==
  IF "id" \notin DOMAIN values \/ values["id"].kind = "null"
  THEN (IF tbl.nextId <= MaxId THEN tbl.nextId ELSE 0)
  ELSE LET given == {n \in 1..MaxId : CellOf(values["id"]) = <<ToDec(n)>>}
       IN  IF given = {} \/ given \subseteq DOMAIN tbl.rows THEN 0
           ELSE CHOOSE n \in given : TRUE

InsertRow(tbl, values, id) ==
  LET row == [c \in {tbl.cols[i] : i \in 1..Len(tbl.cols)} |->
                IF c = "id" THEN <<ToDec(id)>>
                ELSE IF c \in DOMAIN values THEN CellOf(values[c]) ELSE NullCell]
  IN  [tbl EXCEPT !.rows = [i \in DOMAIN @ \cup {id} |-> IF i = id THEN row ELSE @[i]],
                  !.nextId = IF id >= @ THEN id + 1 ELSE @]

\* the tables the server holds when the program connects
Row(id, name, status) == [id |-> <<id>>, name |-> <<name>>, status |-> <<status>>]

InitStore ==
  [t \in TableIds |->
     IF t = <<"shop", "users">>
     THEN [cols |-> <<"id", "name", "status">>,
           rows |-> (1 :> Row("1", "n1", "a") @@ 2 :> Row("2", "n2", "b")),
           nextId |-> 3]
     ELSE [cols |-> <<"id", "title">>,
           rows |-> (1 :> [id |-> <<"1">>, title |-> <<"t1">>]),
           nextId |-> 2]]

\* the columns of a text type: id is INT AUTO_INCREMENT, the other columns of
\* the tables are VARCHAR(255), as is every column ALTER TABLE adds
TextTyped(col) == col # "id"

(***************************************************************************)
(* State.                                                                  *)
(***************************************************************************)
VARIABLES
  CurrentDB,     \* pkg.CurrentDB
  CurrentTable,  \* pkg.CurrentTable
  store,         \* the tables of the server, by <<database, table>>
  ncmd,          \* the number of CREATE, GET, UPDATE and DELETE commands run so far
  cmd,           \* the last operation and its inputs
  sent,          \* the statements the last operation sent to the server, in order
  err,           \* the error the last operation returned ("none" for nil)
  filterFields,  \* the filter fields of the last HandleUpdate
  updateFields,  \* the update fields of the last HandleUpdate
  classified,    \* whether the last HandleUpdate reached the end of its classification loop
  asked,         \* whether the last HandleUpdate called ScanForConfirmation
  parsed,        \* what the last ParseArg returned
  histories,     \* CommandHistory.histories: the lines kept, by namespace
  currentNamespace, \* CommandHistory.currentNamespace
  entered        \* the lines entered so far, each with the context it was entered in

vars == <<CurrentDB, CurrentTable, store, ncmd, cmd, sent, err,
          filterFields, updateFields, classified, asked, parsed,
          histories, currentNamespace, entered>>

ColSet(tbl) == {tbl.cols[i] : i \in 1..Len(tbl.cols)}

\* the enumerations of a finite set (the orders a Go map range may take)
Orders(S) ==
  {f \in [1..Cardinality(S) -> S] : \A i, j \in 1..Cardinality(S) : f[i] = f[j] => i = j}

Stmt(op, table) == [op |-> op, table |-> table]

CrudOps == {"CREATE", "GET", "UPDATE", "DELETE"}

WriteOps == {"ALTER", "INSERT", "UPDATE", "DELETE"}

\* the result of a handler: its error, the statements it sent, the table after
\* it, and what HandleUpdate worked out on the way
Outcome(e, stmts, tbl) ==
  [err |-> e, sent |-> stmts, tbl |-> tbl, filterFields |-> EmptyMap,
   updateFields |-> EmptyMap, classified |-> FALSE, asked |-> FALSE]

(***************************************************************************)
(* pkg/database.go                                                         *)
(***************************************************************************)
\* getColumns: the statement it sends (its result is tbl.cols)
getColumns(table) == Stmt("SHOW COLUMNS", table)

\* isArrayOrRange: a []any or a map[string]any
isArrayOrRange(v) == v.kind \in {"list", "range", "map"}

\* toInt: whether the value is of a numeric type
toIntOk(v) == v.kind \in {"int", "float"}

\* the keys ensureColumns has to create
MissingCols(tbl, fields) == {k \in DOMAIN fields : k # "id" /\ k \notin ColSet(tbl)}

\* ensureColumns: the ALTER statements for the missing keys in the order given,
\* and the table after them
RECURSIVE AlterAll(_, _, _, _)
AlterAll(table, tbl, order, i) ==
  IF i > Len(order) THEN [sent |-> <<>>, tbl |-> tbl]
  ELSE LET rest == AlterAll(table, AddColumn(tbl, order[i]), order, i + 1)
       IN  [sent |-> <<[op |-> "ALTER", table |-> table, col |-> order[i]]>> \o rest.sent,
            tbl  |-> rest.tbl]

ensureColumns(table, tbl, order) ==
  LET a == AlterAll(table, tbl, order, 1)
  IN  [sent |-> <<getColumns(table)>> \o a.sent, tbl |-> a.tbl]

\* HandleCreate
HandleCreate(table, tbl, args, order) ==
  LET ens    == ensureColumns(table, tbl, order)
      insert == [op |-> "INSERT", table |-> table, values |-> args]
      id     == InsertId(ens.tbl, args)
  IN  IF table = "" THEN Outcome("no table selected", <<>>, tbl)
      ELSE IF DOMAIN args = {} THEN Outcome("CREATE requires fields to insert", <<>>, tbl)
      ELSE IF \E k \in DOMAIN args : ~DriverOk(args[k])
      THEN Outcome("unsupported type", ens.sent, ens.tbl)
      ELSE IF id = 0 THEN Outcome("store rejected the row", ens.sent \o <<insert>>, ens.tbl)
      ELSE Outcome("none", ens.sent \o <<insert>>, InsertRow(ens.tbl, args, id))

(***************************************************************************)
(* The WHERE conditions built from filter fields (handle_get.go, lines     *)
(* 153-190; handle_update.go, lines 103-140).                              *)
(***************************************************************************)
\* fmt.Sprintf("%v", val)
Sprint(v) ==
  CASE v.kind \in {"int", "float"} -> v.dec
    [] v.kind = "str"  -> v.s
    [] v.kind = "bool" -> (IF v.b THEN "true" ELSE "false")
    [] v.kind = "null" -> "<nil>"
    [] OTHER           -> "[]"

\* the value bound for one element of a list
BoundElem(v) == IF v.kind \in {"int", "float"} THEN v ELSE StrV(Sprint(v))

Cond(field, op, values) == [field |-> field, op |-> op, values |-> values]

\* the faulty variant that compares with the first element of a list
FilterCond_Equality(field, value) ==
  CASE value.kind = "list" /\ Len(value.elems) = 0 -> Cond(field, "never", <<>>)
    [] value.kind = "list" /\ Len(value.elems) > 0 ->
         Cond(field, "eq", <<BoundElem(value.elems[1])>>)
    [] value.kind = "range" -> Cond(field, "between", <<IntV(value.lo), IntV(value.hi)>>)
    [] OTHER -> Cond(field, "eq", <<value>>)

\* the condition of one filter field
FilterCond(field, value) ==
  CASE value.kind = "list" /\ Len(value.elems) = 0 -> Cond(field, "never", <<>>)
    [] value.kind = "list" /\ Len(value.elems) > 0 ->
         Cond(field, "in", [i \in 1..Len(value.elems) |-> BoundElem(value.elems[i])])
    [] value.kind = "range" -> Cond(field, "between", <<IntV(value.lo), IntV(value.hi)>>)
    [] OTHER -> Cond(field, "eq", <<value>>)

\* a map[string]any without a two-element []int under "range"
BadRange(value) == value.kind = "map"

WhereOf(fields) == {FilterCond(k, fields[k]) : k \in DOMAIN fields}

(***************************************************************************)
(* pkg/handle_update.go                                                    *)
(***************************************************************************)
\* the faulty variant that does not ask whether the key is an existing column
IsFilterField_AnyList(existingCols, k, v) == k = "id" \/ isArrayOrRange(v)

\* the classification loop of HandleUpdate (lines 43-65)
IsFilterField(existingCols, k, v) == k = "id" \/ (k \in existingCols /\ isArrayOrRange(v))

FilterFieldsOf(existingCols, args) ==
  [k \in {x \in DOMAIN args : IsFilterField(existingCols, x, args[x])} |-> args[k]]

UpdateFieldsOf(existingCols, args) ==
  [k \in {x \in DOMAIN args : ~IsFilterField(existingCols, x, args[x])} |-> args[k]]

\* the single-field check of HandleUpdate (lines 30-40)
FilterOnly(existingCols, args) ==
  Cardinality(DOMAIN args) = 1
  /\ \A k \in DOMAIN args : isArrayOrRange(args[k]) /\ k \in existingCols

\* the faulty variant without the test
NoUpdateFields_Skipped(uf) == FALSE

\* the test for an empty updateFields in HandleUpdate (line 68)
NoUpdateFields(uf) == DOMAIN uf = {}

\* the faulty variant that takes only n for a refusal
Declined_OnlyN(response) == response \in {"n", "N"}

\* strings.ToLower(response) != "y"
Declined(response) == response \notin {"y", "Y"}

\* the faulty variant that keeps the column list read when the session began
existingColumns_Cached(table, tbl) ==
  UNION {ColSet(InitStore[t]) : t \in {x \in TableIds : x[2] = table}}

\* the column list of HandleUpdate (lines 19-28): getColumns is called by every
\* UPDATE and its result is made a set
existingColumns(table, tbl) == ColSet(tbl)

\* HandleUpdate; response is what ScanForConfirmation returns when it is called,
\* order the order in which ensureColumns meets the missing columns
HandleUpdate(table, tbl, args, response, order, useJsonOutput) ==
  LET existingCols == existingColumns(table, tbl)
      show    == <<getColumns(table)>>
      ff      == FilterFieldsOf(existingCols, args)
      uf      == UpdateFieldsOf(existingCols, args)
      done(e, stmts, t, ask) ==
        [err |-> e, sent |-> stmts, tbl |-> t, filterFields |-> ff,
         updateFields |-> uf, classified |-> TRUE, asked |-> ask]
      ask     == DOMAIN ff = {}
      ens     == ensureColumns(table, tbl, order)
      where   == WhereOf(ff)
      update  == [op |-> "UPDATE", table |-> table, set |-> uf, where |-> where]
      upto8   == show \o ens.sent
      bound   == {uf[k] : k \in DOMAIN uf} \cup WhereValues(where)
      hit     == Affected(ens.tbl, uf, where)
      after   == UpdateRows(ens.tbl, uf, where)
      selects == IF ~useJsonOutput THEN <<>>
                 ELSE IF where = {} THEN <<Stmt("SELECT", table)>>
                 ELSE <<Stmt("SELECT", table), Stmt("SELECT", table)>>
  IN  IF table = "" THEN Outcome("no table selected", <<>>, tbl)
      ELSE IF DOMAIN args = {}
      THEN Outcome("UPDATE requires fields to update and filter conditions", <<>>, tbl)
      ELSE IF FilterOnly(existingCols, args)
      THEN Outcome("UPDATE requires fields to update (filter only provided)", show, tbl)
      ELSE IF NoUpdateFields(uf) THEN done("UPDATE requires fields to update", show, tbl, FALSE)
      ELSE IF ask /\ Declined(response) THEN done("operation cancelled", show, tbl, TRUE)
      ELSE IF \E k \in DOMAIN ff : BadRange(ff[k])
      THEN done("invalid range format", upto8, ens.tbl, ask)
      ELSE IF \E v \in bound : ~DriverOk(v) THEN done("unsupported type", upto8, ens.tbl, ask)
      ELSE IF ~WhereOk(ens.tbl, where)
      THEN done("store rejected the statement", upto8 \o <<update>>, ens.tbl, ask)
      ELSE IF hit = {}
      THEN done("no records matched the filter criteria", upto8 \o <<update>>, after, ask)
      ELSE done("none", upto8 \o <<update>> \o selects, after, ask)

(***************************************************************************)
(* pkg/handle_delete.go                                                    *)
(***************************************************************************)
\* the faulty variant that tests the map and not its id
MissingId_NilOnly(argsNil, args) == argsNil

\* the test for an id in HandleDelete (line 15)
MissingId(argsNil, args) == argsNil \/ "id" \notin DOMAIN args \/ args["id"].kind = "null"

HandleDelete(table, tbl, argsNil, args) ==
  LET id     == IF "id" \in DOMAIN args THEN args["id"] ELSE NullV
      where  == {IF id.kind = "list"
                 THEN Cond("id", "in", id.elems)
                 ELSE FilterCond("id", id)}
      delete == [op |-> "DELETE", table |-> table, where |-> where]
  IN  IF table = "" THEN Outcome("no table selected", <<>>, tbl)
      ELSE IF MissingId(argsNil, args) THEN Outcome("DELETE requires an id field", <<>>, tbl)
      ELSE IF BadRange(id) THEN Outcome("invalid range format", <<>>, tbl)
      ELSE IF \E v \in WhereValues(where) : ~DriverOk(v) THEN Outcome("unsupported type", <<>>, tbl)
      ELSE IF ~WhereOk(tbl, where)
      THEN Outcome("store rejected the statement", <<delete>>, tbl)
      ELSE IF Matching(tbl, where) = {} THEN Outcome("record(s) not found", <<delete>>, tbl)
      ELSE Outcome("none", <<delete>>, DeleteRows(tbl, where))

(***************************************************************************)
(* pkg/handle_get.go                                                       *)
(***************************************************************************)
\* the explicit projection of HandleGet (lines 15-42): the columns selected and
\* whether the key _columns is deleted from args
Projection(args) ==
  LET colsRaw == args["_columns"]
      strs    == SelectSeq(colsRaw.elems, LAMBDA c : c.kind = "str")
  IN  IF "_columns" \notin DOMAIN args THEN [cols |-> <<>>, deleted |-> FALSE]
      ELSE IF colsRaw.kind = "strs" /\ Len(colsRaw.elems) > 0
      THEN [cols |-> colsRaw.elems, deleted |-> TRUE]
      ELSE IF colsRaw.kind = "list" /\ Len(colsRaw.elems) > 0
      THEN [cols |-> [i \in 1..Len(strs) |-> strs[i].s], deleted |-> Len(strs) > 0]
      ELSE [cols |-> <<>>, deleted |-> FALSE]

\* an option read from the key first or else from the key second, and args
\* without the key it was read from
TakeOption(args, first, second) ==
  IF first \in DOMAIN args THEN [value |-> args[first], rest |-> Del(args, first)]
  ELSE IF second \in DOMAIN args THEN [value |-> args[second], rest |-> Del(args, second)]
  ELSE [value |-> NullV, rest |-> args]

\* int(val) < 0 for a value toInt accepts (float literals carry no exponent here)
Negative(v) ==
  /\ HasPrefix(v.dec, "-")
  /\ StripZeros(SubSeq(v.dec, 2, SkipWhile(v.dec, 2, DigitChars) - 1)) # "0"

\* ORDER BY of HandleGet (lines 58-86): down is looked at after up
OrderBy(upValue, downValue) ==
  IF downValue.kind = "str" THEN [col |-> downValue.s, dir |-> "DESC"]
  ELSE IF upValue.kind = "str" THEN [col |-> upValue.s, dir |-> "ASC"]
  ELSE [col |-> "", dir |-> ""]

\* the faulty variant that never wraps
LikePattern_AsGiven(likeValue) == Sprint(likeValue)

\* the pattern of the LIKE conditions (lines 208-211)
LikePattern(likeValue) ==
  LET likeStr == Sprint(likeValue)
  IN  IF Index(likeStr, "%") = 0 THEN "%" \o likeStr \o "%" ELSE likeStr

\* the LIKE conditions (lines 212-221): one per selected column, joined by OR,
\* with the pattern bound once for each; the clause is joined to the filters by AND
LikeClause(likeValue, selectedCols) ==
  [cols   |-> selectedCols,
   values |-> [i \in 1..Len(selectedCols) |-> LikePattern(likeValue)]]

HandleGet(table, tbl, args) ==
  LET proj     == Projection(args)
      args1    == IF proj.deleted THEN Del(args, "_columns") ELSE args
      lookup   == IF Len(proj.cols) = 0 THEN <<getColumns(table)>> ELSE <<>>
      selectedCols == IF Len(proj.cols) = 0 THEN tbl.cols ELSE proj.cols
      up       == TakeOption(args1, "up", "UP")
      down     == TakeOption(up.rest, "down", "DOWN")
      lim      == TakeOption(down.rest, "LIM", "lim")
      off      == TakeOption(lim.rest, "OFF", "off")
      like     == TakeOption(off.rest, "LIKE", "like")
      limValue == lim.value
      offValue == off.value
      likeValue == like.value
      args6    == like.rest
      where    == WhereOf(args6)
      select   == [op |-> "SELECT", table |-> table,
                   star |-> Len(proj.cols) = 0, cols |-> proj.cols, where |-> where,
                   like |-> IF likeValue.kind = "null" THEN <<>>
                            ELSE <<LikeClause(likeValue, selectedCols)>>,
                   order |-> OrderBy(up.value, down.value),
                   limit |-> IF limValue.kind = "null" THEN <<>>
                             ELSE IF offValue.kind = "null" THEN <<limValue>>
                             ELSE <<limValue, offValue>>]
      named    == {c.field : c \in {d \in where : d.op # "never"}}
                    \cup {proj.cols[i] : i \in 1..Len(proj.cols)}
                    \cup (IF select.order.col = "" THEN {} ELSE {select.order.col})
      bound    == WhereValues(where) \cup {select.limit[i] : i \in 1..Len(select.limit)}
  IN  IF table = "" THEN Outcome("no table selected", <<>>, tbl)
      ELSE IF limValue.kind # "null" /\ ~toIntOk(limValue)
      THEN Outcome("LIMIT must be an integer", lookup, tbl)
      ELSE IF limValue.kind # "null" /\ Negative(limValue)
      THEN Outcome("LIMIT must be non-negative", lookup, tbl)
      ELSE IF offValue.kind # "null" /\ ~toIntOk(offValue)
      THEN Outcome("OFFSET must be an integer", lookup, tbl)
      ELSE IF offValue.kind # "null" /\ Negative(offValue)
      THEN Outcome("OFFSET must be non-negative", lookup, tbl)
      ELSE IF \E k \in DOMAIN args6 : BadRange(args6[k])
      THEN Outcome("invalid range format", lookup, tbl)
      ELSE IF likeValue.kind # "null" /\ Len(selectedCols) = 0
      THEN Outcome("no columns found for LIKE clause", lookup, tbl)
      ELSE IF \E v \in bound : ~DriverOk(v) THEN Outcome("unsupported type", lookup, tbl)
      ELSE IF ~WhereOk(tbl, where) \/ ~(named \subseteq ColSet(tbl))
      THEN Outcome("store rejected the statement", lookup \o <<select>>, tbl)
      ELSE Outcome("none", lookup \o <<select>>, tbl)

(***************************************************************************)
(* cmd/noqli/main.go                                                       *)
(***************************************************************************)
TablesOf(db) == {t[2] : t \in {x \in TableIds : x[1] = db}}

\* the faulty variant that takes the name as the database before the switch
handleUse_EagerSwitch(name, switchOk) ==
  IF name \in Databases
  THEN IF switchOk THEN [err |-> "none", db |-> name, table |-> ""]
       ELSE [err |-> "failed to switch to database", db |-> name, table |-> ""]
  ELSE IF CurrentDB = ""
  THEN [err |-> "no database selected", db |-> CurrentDB, table |-> CurrentTable]
  ELSE IF name \in TablesOf(CurrentDB)
  THEN [err |-> "none", db |-> CurrentDB, table |-> name]
  ELSE [err |-> "table does not exist", db |-> CurrentDB, table |-> CurrentTable]

\* the faulty variant that keeps the table selected when the database changes
handleUse_KeepTable(name, switchOk) ==
  IF name \in Databases
  THEN IF switchOk THEN [err |-> "none", db |-> name, table |-> CurrentTable]
       ELSE [err |-> "failed to switch to database", db |-> CurrentDB, table |-> CurrentTable]
  ELSE IF CurrentDB = ""
  THEN [err |-> "no database selected", db |-> CurrentDB, table |-> CurrentTable]
  ELSE IF name \in TablesOf(CurrentDB)
  THEN [err |-> "none", db |-> CurrentDB, table |-> name]
  ELSE [err |-> "table does not exist", db |-> CurrentDB, table |-> CurrentTable]

\* handleUse; switchOk is whether the server accepts the USE statement
handleUse(name, switchOk) ==
  IF name \in Databases
  THEN IF switchOk THEN [err |-> "none", db |-> name, table |-> ""]
       ELSE [err |-> "failed to switch to database", db |-> CurrentDB, table |-> CurrentTable]
  ELSE IF CurrentDB = ""
  THEN [err |-> "no database selected", db |-> CurrentDB, table |-> CurrentTable]
  ELSE IF name \in TablesOf(CurrentDB)
  THEN [err |-> "none", db |-> CurrentDB, table |-> name]
  ELSE [err |-> "table does not exist", db |-> CurrentDB, table |-> CurrentTable]

\* handleGetDatabases; queryOk is whether the server answers SHOW DATABASES
handleGetDatabases(queryOk) ==
  [err  |-> IF queryOk THEN "none" ELSE "query failed",
   sent |-> <<Stmt("SHOW DATABASES", "")>>]

\* handleGetTables; queryOk is whether the server answers SHOW TABLES
handleGetTables(queryOk) ==
  IF CurrentDB = "" THEN [err |-> "no database selected", sent |-> <<>>]
  ELSE [err  |-> IF queryOk THEN "none" ELSE "query failed",
        sent |-> <<Stmt("SHOW TABLES", "")>>]

(***************************************************************************)
(* pkg/history.go                                                          *)
(***************************************************************************)
\* the entries NewCommandHistory is asked to keep for each namespace
MaxHist == 2

\* the faulty variant that leaves the table out
UpdateNamespace_DbOnly(db, table) == IF db = "" THEN "global" ELSE db

\* UpdateNamespace: the namespace of a database and a table
UpdateNamespace(db, table) ==
  IF db = "" THEN "global"
  ELSE IF table = "" THEN db
  ELSE db \o ":" \o table

\* h.histories[namespace], which is empty for a namespace without entries
HistoryOf(hs, namespace) == IF namespace \in DOMAIN hs THEN hs[namespace] ELSE <<>>

\* the faulty variant that keeps the oldest entries
Trimmed_Oldest(history, maxEntries) ==
  IF Len(history) > maxEntries THEN SubSeq(history, 1, maxEntries) ELSE history

\* the last maxEntries entries of a history
Trimmed(history, maxEntries) ==
  IF Len(history) > maxEntries
  THEN SubSeq(history, Len(history) - maxEntries + 1, Len(history))
  ELSE history

\* AddHistory: the histories after the command was added to the namespace
AddHistory(hs, namespace, command) ==
  LET history == HistoryOf(hs, namespace)
  IN  IF command = "" THEN hs
      ELSE IF Len(history) > 0 /\ history[Len(history)] = command THEN hs
      ELSE Put(hs, namespace, Trimmed(Append(history, command), MaxHist))

\* GetHistory
GetHistory == HistoryOf(histories, currentNamespace)

(***************************************************************************)
(* The inputs.                                                             *)
(***************************************************************************)
\* the maps with at most n keys whose value under each key k is in dom[k]
MapsOver(dom, n) ==
  UNION {{f \in [S -> UNION {dom[k] : k \in S}] : \A k \in S : f[k] \in dom[k]} :
         S \in {T \in SUBSET DOMAIN dom : Cardinality(T) <= n}}

MaxKeys == 2

IdValues == {IntV("1"), IntV("9"), ListV(<<>>), RangeV("2", "1"), MapV(EmptyMap)}

UpdateArgs ==
  MapsOver([id     |-> IdValues,
            status |-> {StrV("x"), ListV(<<StrV("a"), StrV("b")>>), MapV(EmptyMap)},
            nf     |-> {StrV("v"), ListV(<<StrV("v")>>)}], MaxKeys + 1)

Responses == {"y", "Y", "n", ""}

\* what ScanForConfirmation may return to HandleUpdate: it is called only for
\* an update without filter fields (lines 71-76), and nothing is read otherwise
Answers(table, tbl, args) ==
  IF DOMAIN FilterFieldsOf(existingColumns(table, tbl), args) = {} THEN Responses ELSE {""}

CreateArgs ==
  MapsOver([id   |-> {IntV("1"), IntV("4")},
            name |-> {StrV("n3")},
            nf   |-> {StrV("v"), ListV(<<StrV("v")>>)}], MaxKeys)

DeleteArgs ==
  MapsOver([id |-> IdValues \cup {NullV}, name |-> {StrV("n1"), StrV("x")}], MaxKeys)

GetArgs ==
  MapsOver([_columns |-> {ListV(<<StrV("name"), StrV("status")>>), StrsV(<<"name">>), ListV(<<>>)},
            lim  |-> {IntV("2"), IntV("-1")},
            LIM  |-> {IntV("1"), IntV("-1")},
            off  |-> {IntV("-1")},
            OFF  |-> {IntV("0")},
            like |-> {StrV("son"), StrV("%son")},
            up   |-> {StrV("name")},
            down |-> {StrV("name")},
            id   |-> {IntV("1"), MapV(EmptyMap)}], MaxKeys)

\* GET with filters of every shape, a projection and a pattern
FilterArgs ==
  MapsOver([id       |-> {ListV(<<IntV("1"), IntV("2"), IntV("3")>>), ListV(<<>>),
                          RangeV("2", "1"), RangeV("1", "2")},
            name     |-> {ListV(<<StrV("n1"), IntV("123")>>), ListV(<<>>), StrV("n1")},
            like     |-> {StrV("n"), IntV("1")},
            _columns |-> {StrsV(<<"name", "status">>)}], MaxKeys)

\* GET with option keys in other letter cases and with aggregate keys
CaseArgs ==
  MapsOver([up    |-> {StrV("name")},
            UP    |-> {StrV("id")},
            Up    |-> {StrV("name")},
            Lim   |-> {IntV("2")},
            Like  |-> {StrV("n")},
            COUNT |-> {StrV("*")},
            MAX   |-> {StrV("id")}], MaxKeys)

\* the argument texts of commands entered at the prompt
GetTexts == {"{id: [1,2,3]}", "{name: ['n1', 123]}", "{id: (2, 1)}", "{LIKE: 'son'}",
             "{like: '%son'}", "{like: 'n_'}", "{COUNT: '*', MAX: 'id'}"}

UpdateTexts == {"{id: (2, 1), status: 'x'}", "{id: [], status: 'x'}", "{id: 1, lim: 2}"}

DeleteTexts == {"{id: (2, 1)}", "{id: []}", "{id: [1,2,3]}"}

\* the inputs of a handler: argument maps given to it directly, and the maps
\* handleCommand gets from ParseArg for the texts ParseArg accepts
Direct(argSet) == {[text |-> "", args |-> a, argsNil |-> FALSE] : a \in argSet}

Entered(texts) ==
  {[text |-> t, args |-> ParseArg(t).m, argsNil |-> ParseArg(t).isNil] :
     t \in {x \in texts : ParseArg(x).err = "none"}}

GetInputs == Direct(GetArgs \cup FilterArgs \cup CaseArgs) \cup Entered(GetTexts)

UpdateInputs == Direct(UpdateArgs) \cup Entered(UpdateTexts)

DeleteInputs == Direct(DeleteArgs) \cup Entered(DeleteTexts)

UseNames == Databases \cup {"users", "posts", "nope"}

\* the texts given to ParseArg
RECURSIVE StringsUpTo(_, _)
StringsUpTo(chars, n) ==
  IF n = 0 THEN {""}
  ELSE LET shorter == StringsUpTo(chars, n - 1)
       IN  shorter \cup {c \o t : c \in chars, t \in shorter}

NumberTexts == StringsUpTo({"0", "1", "7"}, MaxDigits) \ {""}

WideNumberTexts == {"9223372036854775807", "9223372036854775808", "18446744073709551616"}

JunkTexts == StringsUpTo({"{", "}", "5", "-", " ", "a"}, MaxJunkLen)

Clauses == {"name: 'John'", "age: 30", "a: 2", "'a': 1", "lim: 2", "name", "email",
            "id: 1", "id: (1, 10)", "id: (5, 2)", "id: (a, 2)", "id: [1,2,3]",
            "[name, title] = 'Test'", "[a, b] = 5", "[b, c] = 'x, a: y'"}

RECURSIVE Join(_, _)
Join(parts, sep) ==
  IF Len(parts) = 0 THEN ""
  ELSE IF Len(parts) = 1 THEN parts[1]
  ELSE parts[1] \o sep \o Join(Tail(parts), sep)

\* the sequences of at most n different clauses
ClauseSeqs(n) ==
  UNION {{f \in [1..k -> Clauses] : \A i, j \in 1..k : f[i] = f[j] => i = j} : k \in 0..n}

ObjectTexts == {"{" \o Join(cs, ", ") \o "}" : cs \in ClauseSeqs(MaxClauses)}

\* the elements written in a list clause
ListElems == {"\"XXX\"", "'XXX'", "XXX", "\"Y\"", "'Y'", "Y", "123", "-5", "1.5",
              "'a, b'", "\"O'\"", "9223372036854775808"}

MaxElems == 2

\* the sequences of at most n elements
ElemSeqs(n) == UNION {[1..k -> ListElems] : k \in 0..n}

ListText(elems) == "{name: [" \o Join(elems, ", ") \o "]}"

ListTexts == {ListText(elems) : elems \in ElemSeqs(MaxElems)}

\* the field names written before a range clause, and what follows the clause
RangeNames == {"id", "uid", "valid", "name"}

RangeRests == {"", ", age: 30"}

RangeText(name, rest) == "{" \o name \o ": (1, 5)" \o rest \o "}"

RangeTexts == {RangeText(name, rest) : name \in RangeNames, rest \in RangeRests}

\* quoted values with a comma, the quote characters, and the clauses around
CommaValues == {"Smith, John", "a,b"}

QuoteChars == {"'", "\""}

ClausesBefore == {"", "age: 30, "}

ClausesAfter == {"", ", lim: 2"}

QuotedText(before, q, s, after) ==
  "{" \o before \o "name: " \o q \o s \o q \o after \o "}"

QuotedTexts ==
  {QuotedText(before, q, s, after) :
     before \in ClausesBefore, q \in QuoteChars, s \in CommaValues, after \in ClausesAfter}

\* a clause that gives the key a its value in an early step (a multi-field
\* assignment or a list clause), followed by a direct clause for the same key
\* with the number it writes; a direct clause with a quoted key is decoded by
\* json.Unmarshal, one with a bare key by the manual fallback
OverlapPairs ==
  {<<"[a, b] = 5", "a: 2", "2">>, <<"[a, b] = 5", "\"a\": 1", "1">>,
   <<"[a, b] = 'x'", "'a': 1", "1">>, <<"a: [7, 8]", "a: 2", "2">>}

OverlapText(pair) == "{" \o pair[1] \o ", " \o pair[2] \o "}"

OverlapTexts == {OverlapText(pair) : pair \in OverlapPairs}

Texts == NumberTexts \cup WideNumberTexts \cup JunkTexts \cup ObjectTexts \cup ListTexts
         \cup RangeTexts \cup QuotedTexts \cup OverlapTexts

(***************************************************************************)
(* Initial state: the program has connected; DB_NAME may name a database.  *)
(***************************************************************************)
NoCmd == [op |-> "none", text |-> "", args |-> EmptyMap, argsNil |-> FALSE,
          response |-> "", name |-> ""]

InitCommon ==
  /\ CurrentTable = ""
  /\ store = InitStore
  /\ ncmd = 0
  /\ sent = <<>>
  /\ err = "none"
  /\ filterFields = EmptyMap
  /\ updateFields = EmptyMap
  /\ classified = FALSE
  /\ asked = FALSE
  /\ parsed = ParseNil
  /\ histories = EmptyMap
  /\ currentNamespace = UpdateNamespace(CurrentDB, CurrentTable)
  /\ entered = {}

Init ==
  /\ CurrentDB \in Databases \cup {""}
  /\ cmd = NoCmd
  /\ InitCommon

\* the table the handlers work on
Here == <<CurrentDB, CurrentTable>>

CurrentTbl == IF Here \in TableIds THEN store[Here] ELSE [cols |-> <<>>, rows |-> <<>>, nextId |-> 1]

\* the state after a handler returned outcome o (the actions bind o to the
\* one value the handler returns)
Finish(c, o) ==
  /\ cmd' = c
  /\ sent' = o.sent
  /\ err' = o.err
  /\ filterFields' = o.filterFields
  /\ updateFields' = o.updateFields
  /\ classified' = o.classified
  /\ asked' = o.asked
  /\ store' = IF Here \in TableIds THEN [store EXCEPT ![Here] = o.tbl] ELSE store
  /\ ncmd' = ncmd + 1
  /\ parsed' = ParseNil
  /\ UNCHANGED <<CurrentDB, CurrentTable, histories, currentNamespace, entered>>

\* the main loop is back at its prompt: the last command is over
Idle == cmd.op = "none"

Use ==
  \E name \in UseNames, switchOk \in BOOLEAN :
    LET r == handleUse(name, switchOk)
    IN  /\ Idle
        /\ CurrentDB' = r.db
        /\ CurrentTable' = r.table
        /\ err' = r.err
        /\ cmd' = [NoCmd EXCEPT !.op = "USE", !.name = name]
        /\ sent' = <<>>
        /\ filterFields' = EmptyMap
        /\ updateFields' = EmptyMap
        /\ classified' = FALSE
        /\ asked' = FALSE
        /\ parsed' = ParseNil
        /\ currentNamespace' = IF r.err = "none" THEN UpdateNamespace(r.db, r.table)
                                ELSE currentNamespace
        /\ UNCHANGED <<store, ncmd, histories, entered>>

Create ==
  /\ Idle
  /\ CurrentTable # ""
  /\ ncmd < MaxSteps
  /\ \E args \in CreateArgs :
       \E order \in Orders(MissingCols(CurrentTbl, args)) :
         \E o \in {HandleCreate(CurrentTable, CurrentTbl, args, order)} :
           Finish([NoCmd EXCEPT !.op = "CREATE", !.args = args], o)

Get ==
  /\ Idle
  /\ CurrentTable # ""
  /\ ncmd < MaxSteps
  /\ \E in \in GetInputs :
       \E o \in {HandleGet(CurrentTable, CurrentTbl, in.args)} :
         Finish([NoCmd EXCEPT !.op = "GET", !.text = in.text, !.args = in.args], o)

Update ==
  /\ Idle
  /\ CurrentTable # ""
  /\ ncmd < MaxSteps
  /\ \E in \in UpdateInputs, useJsonOutput \in BOOLEAN :
       \E response \in Answers(CurrentTable, CurrentTbl, in.args),
          order \in Orders(MissingCols(CurrentTbl,
                     UpdateFieldsOf(existingColumns(CurrentTable, CurrentTbl), in.args))) :
         \E o \in {HandleUpdate(CurrentTable, CurrentTbl, in.args, response, order,
                               useJsonOutput)} :
           Finish([NoCmd EXCEPT !.op = "UPDATE", !.text = in.text, !.args = in.args,
                                !.response = IF o.asked THEN response ELSE ""], o)

Delete ==
  /\ Idle
  /\ CurrentTable # ""
  /\ ncmd < MaxSteps
  /\ \E in \in DeleteInputs, argsNil \in BOOLEAN :
       /\ argsNil => in.args = EmptyMap
       /\ \E o \in {HandleDelete(CurrentTable, CurrentTbl, argsNil, in.args)} :
            Finish([NoCmd EXCEPT !.op = "DELETE", !.text = in.text, !.args = in.args,
                                 !.argsNil = argsNil], o)

\* the state after a command that reads the server's catalogue
Listed(op, r) ==
  /\ Idle
  /\ cmd' = [NoCmd EXCEPT !.op = op]
  /\ err' = r.err
  /\ sent' = r.sent
  /\ filterFields' = EmptyMap
  /\ updateFields' = EmptyMap
  /\ classified' = FALSE
  /\ asked' = FALSE
  /\ parsed' = ParseNil
  /\ UNCHANGED <<CurrentDB, CurrentTable, store, ncmd, histories, currentNamespace, entered>>

\* handleCommand refuses CREATE, GET, UPDATE and DELETE while no table is
\* selected (lines 169-172), whatever their arguments
NoTable ==
  /\ CurrentTable = ""
  /\ \E op \in CrudOps : Listed(op, [err |-> "no table selected", sent |-> <<>>])

GetDbs == \E queryOk \in BOOLEAN : Listed("GET dbs", handleGetDatabases(queryOk))

GetTables == \E queryOk \in BOOLEAN : Listed("GET tables", handleGetTables(queryOk))

\* handleCommand rejects a line that is no command (lines 143-145)
Invalid == Listed("invalid", [err |-> "invalid command", sent |-> <<>>])

\* the main loop reports the error, if any, and prompts for the next line
Prompt ==
  /\ ~Idle
  /\ cmd' = NoCmd
  /\ sent' = <<>>
  /\ err' = "none"
  /\ filterFields' = EmptyMap
  /\ updateFields' = EmptyMap
  /\ classified' = FALSE
  /\ asked' = FALSE
  /\ parsed' = ParseNil
  /\ UNCHANGED <<CurrentDB, CurrentTable, store, ncmd, histories, currentNamespace, entered>>

Next ==
  Use \/ GetDbs \/ GetTables \/ Invalid \/ NoTable \/ Create \/ Get \/ Update \/ Delete \/ Prompt

Spec == Init /\ [][Next]_vars

(***************************************************************************)
(* ParseArg alone: the initial state draws a text, the step parses it.     *)
(***************************************************************************)
ParserInit ==
  /\ CurrentDB = ""
  /\ cmd \in {[NoCmd EXCEPT !.text = t] : t \in Texts}
  /\ InitCommon

Parse ==
  /\ Idle
  /\ cmd' = [cmd EXCEPT !.op = "ParseArg"]
  /\ parsed' = ParseArg(cmd.text)
  /\ UNCHANGED <<CurrentDB, CurrentTable, store, ncmd, sent, err,
                 filterFields, updateFields, classified, asked,
                 histories, currentNamespace, entered>>

ParserNext == Parse

ParserSpec == ParserInit /\ [][ParserNext]_vars

(***************************************************************************)
(* The main loop with its command history (main.go, lines 76-119): a step  *)
(* reads a line, adds it to the history and hands it to handleCommand.     *)
(***************************************************************************)
MaxLines == 4

\* the lines that are no USE command: one handleCommand rejects and GET dbs
OtherLines == {"bogus", "get dbs"}

\* the history after the line was entered in the current context
Entered_Line(line) ==
  /\ ncmd < MaxLines
  /\ ncmd' = ncmd + 1
  /\ histories' = AddHistory(histories, currentNamespace, line)
  /\ entered' = entered \cup {<<CurrentDB, CurrentTable, line>>}
  /\ filterFields' = EmptyMap
  /\ updateFields' = EmptyMap
  /\ classified' = FALSE
  /\ asked' = FALSE
  /\ parsed' = ParseNil
  /\ UNCHANGED store

EnterUse ==
  \E name \in UseNames, switchOk \in BOOLEAN :
    LET r == handleUse(name, switchOk)
    IN  /\ Entered_Line("USE " \o name)
        /\ cmd' = [NoCmd EXCEPT !.op = "USE", !.name = name, !.text = "USE " \o name]
        /\ CurrentDB' = r.db
        /\ CurrentTable' = r.table
        /\ err' = r.err
        /\ sent' = <<>>
        /\ currentNamespace' = IF r.err = "none" THEN UpdateNamespace(r.db, r.table)
                                ELSE currentNamespace

EnterOther ==
  \E line \in OtherLines, queryOk \in BOOLEAN :
    LET r == IF line = "get dbs" THEN handleGetDatabases(queryOk)
             ELSE [err |-> "invalid command", sent |-> <<>>]
    IN  /\ Entered_Line(line)
        /\ cmd' = [NoCmd EXCEPT !.op = IF line = "get dbs" THEN "GET dbs" ELSE "invalid",
                                 !.text = line]
        /\ err' = r.err
        /\ sent' = r.sent
        /\ UNCHANGED <<CurrentDB, CurrentTable, currentNamespace>>

HistoryNext == EnterUse \/ EnterOther

HistorySpec == Init /\ [][HistoryNext]_vars

(***************************************************************************)
(* The command history on its own: a history made by NewCommandHistory and *)
(* any sequence of calls of AddHistory and UpdateNamespace.                *)
(***************************************************************************)
\* the commands given to AddHistory, and the arguments given to UpdateNamespace
HistoryCommands == {"", "a", "b", "c", "d"}

NamespaceArgs == {<<"", "">>, <<"", "users">>, <<"shop", "">>, <<"shop", "users">>,
                  <<"global", "">>}

\* what a call leaves alone
CallFrame ==
  /\ ncmd < MaxLines
  /\ ncmd' = ncmd + 1
  /\ UNCHANGED <<CurrentDB, CurrentTable, store, sent, err, filterFields, updateFields,
                 classified, asked, parsed>>

CallAddHistory ==
  \E command \in HistoryCommands :
    /\ CallFrame
    /\ cmd' = [NoCmd EXCEPT !.op = "AddHistory", !.text = command]
    /\ histories' = AddHistory(histories, currentNamespace, command)
    /\ entered' = entered \cup {<<currentNamespace, command>>}
    /\ UNCHANGED currentNamespace

CallUpdateNamespace ==
  \E arg \in NamespaceArgs :
    /\ CallFrame
    /\ cmd' = [NoCmd EXCEPT !.op = "UpdateNamespace", !.name = arg[1], !.text = arg[2]]
    /\ currentNamespace' = UpdateNamespace(arg[1], arg[2])
    /\ UNCHANGED <<histories, entered>>

HistoryCallsNext == CallAddHistory \/ CallUpdateNamespace

HistoryCallsSpec == Init /\ [][HistoryCallsNext]_vars

(***************************************************************************)
(* Properties of the handlers, checked under Spec.                         *)
(***************************************************************************)
HasWrite(stmts) == \E i \in 1..Len(stmts) : stmts[i].op \in WriteOps

HasOp(stmts, ops) == \E i \in 1..Len(stmts) : stmts[i].op \in ops

\* a List or a Range as HandleUpdate meets it: a []any or a map[string]any
ListOrRange(v) == v.kind \in {"list", "range", "map"}

\* C1: after the classification loop of an UPDATE every key of the argument map
\* is in exactly one of filterFields and updateFields; id is a filter; any other
\* key is a filter exactly when it is a column the table had before the command
\* and its value is a List or a Range
C1_Classification ==
  [][(cmd'.op = "UPDATE" /\ classified') =>
       \A k \in DOMAIN cmd'.args :
         /\ (k \in DOMAIN filterFields') # (k \in DOMAIN updateFields')
         /\ k \in DOMAIN filterFields' => filterFields'[k] = cmd'.args[k]
         /\ k \in DOMAIN updateFields' => updateFields'[k] = cmd'.args[k]
         /\ k = "id" => k \in DOMAIN filterFields'
         /\ k # "id" => ((k \in DOMAIN filterFields') <=>
                           (k \in ColSet(CurrentTbl) /\ ListOrRange(cmd'.args[k])))]_vars

\* an UPDATE that classified id and a List on a column as filters and a List on
\* a new name as an update field
C1_Witness ==
  /\ cmd.op = "UPDATE" /\ classified
  /\ DOMAIN filterFields = {"id", "status"}
  /\ filterFields["status"].kind = "list"
  /\ DOMAIN updateFields = {"nf"}

NoUpdateFieldsErrors ==
  {"UPDATE requires fields to update and filter conditions",
   "UPDATE requires fields to update (filter only provided)",
   "UPDATE requires fields to update"}

\* C2: an UPDATE on a selected table whose argument map leaves no update field
\* (it is empty, or each key is id or a column of the table with a List or a
\* Range) returns one of the no-update-fields errors, sends no write and leaves
\* the tables as they were
C2_NoUpdateFields ==
  [][(/\ cmd'.op = "UPDATE"
      /\ CurrentTable # ""
      /\ \A k \in DOMAIN cmd'.args :
            k = "id" \/ (k \in ColSet(CurrentTbl) /\ ListOrRange(cmd'.args[k])))
     => (err' \in NoUpdateFieldsErrors /\ ~HasWrite(sent') /\ store' = store)]_vars

\* an UPDATE whose only key is a column with a List was rejected as filter only
C2_Witness ==
  /\ cmd.op = "UPDATE"
  /\ DOMAIN cmd.args = {"status"}
  /\ cmd.args["status"].kind = "list"
  /\ err = "UPDATE requires fields to update (filter only provided)"
  /\ ~HasWrite(sent)

\* C3: an UPDATE with an empty filterFields sends an ALTER or an UPDATE only
\* when the confirmation was asked and answered y or Y; after any other answer
\* it returns the error operation cancelled, has sent no write, and the tables
\* are as they were
C3_Confirmation ==
  [][(cmd'.op = "UPDATE" /\ DOMAIN filterFields' = {}) =>
       /\ HasOp(sent', {"ALTER", "UPDATE"}) => (asked' /\ cmd'.response \in {"y", "Y"})
       /\ (asked' /\ cmd'.response \notin {"y", "Y"}) =>
             (err' = "operation cancelled" /\ ~HasWrite(sent') /\ store' = store)]_vars

\* an UPDATE without filters whose confirmation was answered by the bare Enter key
C3_Witness ==
  /\ cmd.op = "UPDATE" /\ classified /\ asked
  /\ DOMAIN filterFields = {}
  /\ cmd.response = ""
  /\ err = "operation cancelled"
  /\ sent = <<getColumns(CurrentTable)>>

\* C4: a DELETE whose argument map is nil or has no id returns an error, sends
\* no DELETE statement and leaves every row of every table in place
C4_DeleteNeedsId ==
  [][(cmd'.op = "DELETE" /\ (cmd'.argsNil \/ "id" \notin DOMAIN cmd'.args)) =>
       (err' # "none" /\ ~HasOp(sent', {"DELETE"}) /\ store' = store)]_vars

\* a DELETE on a selected table with a name and no id
C4_Witness ==
  /\ cmd.op = "DELETE"
  /\ CurrentTable # ""
  /\ DOMAIN cmd.args = {"name"}
  /\ err = "DELETE requires an id field"
  /\ sent = <<>>

PaginationKeys == {"lim", "LIM", "off", "OFF"}

PaginationErrors ==
  {"LIMIT must be an integer", "LIMIT must be non-negative",
   "OFFSET must be an integer", "OFFSET must be non-negative"}

\* C5: a GET on a selected table whose lim or off, in either case, is a negative
\* integer returns a pagination error and sends no statement at all, the
\* look-up of the columns included
C5_NegativePagination ==
  (/\ cmd.op = "GET"
   /\ CurrentTable # ""
   /\ \E k \in PaginationKeys \cap DOMAIN cmd.args :
         cmd.args[k].kind = "int" /\ Negative(cmd.args[k]))
  => (err \in PaginationErrors /\ sent = <<>>)

ResolutionErrors ==
  NoUpdateFieldsErrors \cup PaginationErrors \cup
  {"DELETE requires an id field", "invalid range format", "operation cancelled",
   "CREATE requires fields to insert"}

\* C6: a command that ends with a resolution error (missing id, no update
\* fields, invalid range format, invalid pagination, declined confirmation,
\* empty CREATE) has sent no INSERT, UPDATE, DELETE or ALTER and left the
\* tables as they were
C6_NoWriteOnFailure ==
  [][(cmd'.op \in {"CREATE", "GET", "UPDATE", "DELETE"} /\ err' \in ResolutionErrors) =>
       (~HasWrite(sent') /\ store' = store)]_vars

(***************************************************************************)
(* Properties of ParseArg, checked under ParserSpec.                       *)
(***************************************************************************)
\* the decimal text of a non-negative integer
IsDecimalText(t) == IsDigits(t) /\ (t = "0" \/ Ch(t, 1) # "0")

\* C7: ParseArg of the decimal text of a non-negative integer n returns the
\* one-key map {id: n} and no error
C7_PlainInteger ==
  (cmd.op = "ParseArg" /\ IsDecimalText(cmd.text)) =>
     parsed = ParseOk(Put(EmptyMap, "id", IntV(cmd.text)))

\* C8: ParseArg returns an error and no map for every non-empty text that,
\* once the surrounding white space is trimmed, is neither all digits nor
\* enclosed in { and }; for {} it returns an empty map and no error
C8_MalformedExpression ==
  cmd.op = "ParseArg" =>
    LET trimmed == TrimSpace(cmd.text)
    IN  /\ (cmd.text # "" /\ ~IsDigits(trimmed)
             /\ ~(HasPrefix(trimmed, "{") /\ HasSuffix(trimmed, "}")))
            => (parsed.err # "none" /\ parsed.isNil)
        /\ cmd.text = "{}" => parsed = ParseOk(EmptyMap)

\* ParseArg has rejected a text that opens a brace and never closes it
C8_Witness ==
  /\ cmd.op = "ParseArg"
  /\ cmd.text = "{a"
  /\ parsed = ParseErr("invalid argument format")

\* the fields named by a multi-field assignment
ClauseFields(match) ==
  LET fields == Split(match.g1, ",")
  IN  {TrimSpace(fields[i]) : i \in 1..Len(fields)}

\* the keys the manual key:value fallback writes for the residual text
ManualKeys(trimmed) ==
  LET j     == JsonUnmarshal("{" \o QuotesToDouble(trimmed) \o "}")
      pairs == Split(trimmed, ",")
      written(pair) ==
        LET parts == SplitN2(pair, ":")
        IN  /\ Len(parts) = 2
            /\ ~(HasPrefix(TrimSpace(parts[2]), "[") /\ HasSuffix(TrimSpace(parts[2]), "]"))
  IN  IF trimmed = "" \/ (j.ok /\ j.val.kind = "map") THEN {}
      ELSE {TrimSpace(SplitN2(pairs[i], ":")[1]) : i \in {n \in 1..Len(pairs) : written(pairs[n])}}

\* the keys written after the i-th multi-field assignment of the expression
\* str: by a later multi-field assignment, the id range, a list clause or the
\* manual fallback
WrittenAfter(str, i) ==
  LET st      == Stages(str)
      matches == FindAllArrayField(st.inner, 1)
      lists   == FindAllArray(st.cleaned, 1)
  IN  UNION {ClauseFields(matches[j]) : j \in (i + 1)..Len(matches)}
      \cup (IF st.range.ok THEN {"id"} ELSE {})
      \cup {lists[j].g1 : j \in 1..Len(lists)}
      \cup ManualKeys(st.listed.trimmed)

\* C9 as stated: in the map of an accepted expression the fields named by a
\* multi-field assignment are all present and all map to the same value,
\* whatever else the expression contains
C9_AllFieldsIdentical ==
  (cmd.op = "ParseArg" /\ parsed.err = "none" /\ IsObjectNotation(TrimSpace(cmd.text))) =>
    LET matches == FindAllArrayField(Stages(TrimSpace(cmd.text)).inner, 1)
    IN  \A i \in 1..Len(matches) :
          /\ ClauseFields(matches[i]) \subseteq DOMAIN parsed.m
          /\ \A f, g \in ClauseFields(matches[i]) : parsed.m[f] = parsed.m[g]

\* C9 as amended: in the map of an accepted expression every field named by a
\* multi-field assignment is present, and every such field that no later
\* extraction step writes again maps to the value parsed for the assignment
C9_FieldsAssigned ==
  (cmd.op = "ParseArg" /\ parsed.err = "none" /\ IsObjectNotation(TrimSpace(cmd.text))) =>
    LET str     == TrimSpace(cmd.text)
        matches == FindAllArrayField(Stages(str).inner, 1)
    IN  \A i \in 1..Len(matches) :
          \A f \in ClauseFields(matches[i]) :
            /\ f \in DOMAIN parsed.m
            /\ f \notin WrittenAfter(str, i) =>
                  parsed.m[f] = AssignedValue(TrimSpace(matches[i].g2))

\* an expression with a multi-field assignment and another clause was parsed
C9_Witness ==
  /\ cmd.op = "ParseArg"
  /\ cmd.text = "{[name, title] = 'Test', age: 30}"
  /\ parsed.err = "none"
  /\ DOMAIN parsed.m = {"name", "title", "age"}
  /\ parsed.m["name"] = StrV("Test")
  /\ parsed.m["title"] = StrV("Test")

\* a non-empty text of word characters
IsWord(w) == w # "" /\ \A i \in 1..Len(w) : Ch(w, i) \in WordChars

\* the bare words an expression starts with
RECURSIVE LeadingWords(_, _)
LeadingWords(parts, i) ==
  IF i > Len(parts) \/ ~IsWord(TrimSpace(parts[i])) THEN <<>>
  ELSE <<TrimSpace(parts[i])>> \o LeadingWords(parts, i + 1)

BareWords(str) == LeadingWords(Split(SubSeq(str, 2, Len(str) - 1), ","), 1)

\* C10: for an expression that starts with comma-separated bare words ParseArg
\* returns a map in which _columns is the list of those words in order, and
\* for {name, email, lim: 2} the map has lim: 2 as well
C10_BareProjection ==
  (/\ cmd.op = "ParseArg"
   /\ IsObjectNotation(TrimSpace(cmd.text))
   /\ Len(BareWords(TrimSpace(cmd.text))) > 0)
  => LET words == BareWords(TrimSpace(cmd.text))
     IN  /\ parsed.err = "none"
         /\ "_columns" \in DOMAIN parsed.m
         /\ parsed.m["_columns"] \in
              {StrsV(words), ListV([i \in 1..Len(words) |-> StrV(words[i])])}
         /\ cmd.text = "{name, email, lim: 2}" =>
              ("lim" \in DOMAIN parsed.m /\ parsed.m["lim"] = IntV("2"))

(***************************************************************************)
(* The filters of GET, UPDATE and DELETE, checked under Spec.              *)
(***************************************************************************)
\* the statements of the given kind among those sent
StmtsOf(stmts, op) == {stmts[i] : i \in {j \in 1..Len(stmts) : stmts[j].op = op}}

\* the keys HandleGet reads as options or as the projection
GetOptionKeys == {"up", "UP", "down", "DOWN", "lim", "LIM", "off", "OFF", "like", "LIKE",
                  "_columns"}

\* the conditions a statement has on a field
CondsOn(stmt, k) == {c \in stmt.where : c.field = k}

\* C11: in every SELECT a GET sends, a filter key whose value is a List of
\* n >= 1 elements has one condition, a membership test with exactly n bound
\* values, and no equality condition; the text {id: [1,2,3]} gives a list of
\* three elements and a membership test over 1, 2 and 3
C11_ListMembership ==
  cmd.op = "GET" =>
    \A q \in StmtsOf(sent, "SELECT") :
      /\ \A k \in DOMAIN cmd.args \ GetOptionKeys :
           (cmd.args[k].kind = "list" /\ Len(cmd.args[k].elems) >= 1) =>
             /\ Cardinality(CondsOn(q, k)) = 1
             /\ \A c \in CondsOn(q, k) :
                  c.op = "in" /\ Len(c.values) = Len(cmd.args[k].elems)
      /\ cmd.text = "{id: [1,2,3]}" =>
           /\ cmd.args = ("id" :> ListV(<<IntV("1"), IntV("2"), IntV("3")>>))
           /\ q.where = {Cond("id", "in", <<IntV("1"), IntV("2"), IntV("3")>>)}

\* GET {id: [1,2,3]} entered at the prompt has sent its SELECT
C11_Witness ==
  /\ cmd.op = "GET" /\ cmd.text = "{id: [1,2,3]}" /\ err = "none"
  /\ \E q \in StmtsOf(sent, "SELECT") : \E c \in q.where : c.op = "in" /\ Len(c.values) = 3

\* a List without elements
EmptyList(v) == v.kind = "list" /\ Len(v.elems) = 0

\* the filter fields of the last command whose value is an empty List
EmptyListFilters ==
  CASE cmd.op = "GET"    -> {k \in DOMAIN cmd.args \ GetOptionKeys : EmptyList(cmd.args[k])}
    [] cmd.op = "UPDATE" -> {k \in DOMAIN filterFields : EmptyList(filterFields[k])}
    [] cmd.op = "DELETE" -> {k \in DOMAIN cmd.args \cap {"id"} : EmptyList(cmd.args[k])}
    [] OTHER             -> {}

\* the statements with a WHERE clause among those sent
WhereStmts(stmts) ==
  {stmts[i] : i \in {j \in 1..Len(stmts) : "where" \in DOMAIN stmts[j]}}

\* the table new has the rows of old, with the cells of old's columns unchanged
RowsKept(old, new) ==
  /\ DOMAIN new.rows = DOMAIN old.rows
  /\ \A i \in DOMAIN old.rows : \A c \in ColSet(old) : new.rows[i][c] = old.rows[i][c]

\* C12: a GET, UPDATE or DELETE with an empty List as the value of a filter
\* field changes no row, and every statement it sends has a condition on that
\* field, which is a condition the server accepts and no row satisfies
C12_EmptyList ==
  [][\A k \in EmptyListFilters' :
       /\ RowsKept(CurrentTbl, CurrentTbl')
       /\ \A q \in WhereStmts(sent') :
            /\ CondsOn(q, k) # {}
            /\ \A c \in CondsOn(q, k) :
                 /\ c.op = "in" => Len(c.values) > 0
                 /\ \A i \in DOMAIN CurrentTbl'.rows : ~CondHolds(CurrentTbl'.rows[i], c)]_vars

(***************************************************************************)
(* The elements of a list clause, checked under ParserSpec.                *)
(***************************************************************************)
\* an element enclosed in matching single or double quotes
IsQuoted(tok) ==
  /\ Len(tok) >= 2
  /\ Ch(tok, 1) \in {"'", "\""}
  /\ Ch(tok, Len(tok)) = Ch(tok, 1)

\* an integer-looking token: digits after an optional minus sign
IsIntegerText(tok) ==
  IF HasPrefix(tok, "-") THEN IsDecimalText(Tail(tok)) ELSE IsDecimalText(tok)

\* the integer an integer-looking token denotes, as canonical decimal text
IntegerOf(tok) ==
  IF HasPrefix(tok, "-")
  THEN (IF StripZeros(Tail(tok)) = "0" THEN "0" ELSE "-" \o StripZeros(Tail(tok)))
  ELSE StripZeros(tok)

\* the value the elements of a list clause are to become
Coerced(tok) ==
  IF IsQuoted(tok) THEN StrV(SubSeq(tok, 2, Len(tok) - 1))
  ELSE IF IsIntegerText(tok) THEN IntV(IntegerOf(tok))
  ELSE StrV(tok)

\* C13: ParseArg turns a clause name: [v1, v2, ...] into the list of its
\* elements, each coerced on its own: a quoted element to the string between
\* its quotes, an integer-looking one to the integer, any other to the raw text
C13_ListCoercion ==
  (cmd.op = "ParseArg" /\ HasPrefix(cmd.text, "{name: ["))
  => \A elems \in ElemSeqs(MaxElems) :
       cmd.text = ListText(elems) =>
         /\ parsed.err = "none"
         /\ parsed.m = ("name" :> ListV([i \in 1..Len(elems) |-> Coerced(elems[i])]))

(***************************************************************************)
(* The options of GET, checked under Spec.                                 *)
(***************************************************************************)
\* the value HandleGet takes as its pattern: that of LIKE, or else that of like
PatternGiven(args) ==
  IF "LIKE" \in DOMAIN args THEN <<args["LIKE"]>>
  ELSE IF "like" \in DOMAIN args THEN <<args["like"]>>
  ELSE <<>>

\* the text of a pattern value
TextOf(v) == IF v.kind = "str" THEN v.s ELSE v.dec

\* a text with the wildcard % is the pattern as it stands, any other is wrapped
Normalised(text) ==
  IF \E i \in 1..Len(text) : Ch(text, i) = "%" THEN text ELSE "%" \o text \o "%"

\* the columns a SELECT reads
SearchedCols(q) == IF q.star THEN CurrentTbl.cols ELSE q.cols

\* the first key with a value, if any
KeyGiven(args, first, second) ==
  IF first \in DOMAIN args THEN {first} ELSE {second} \cap DOMAIN args

UpperLetters == "ABCDEFGHIJKLMNOPQRSTUVWXYZ"

LowerLetters == "abcdefghijklmnopqrstuvwxyz"

\* a text with its upper-case letters replaced by the lower-case ones
RECURSIVE Lowered(_)
Lowered(s) ==
  IF s = "" THEN ""
  ELSE LET c == Ch(s, 1)
           i == Index(UpperLetters, c)
       IN  (IF i = 0 THEN c ELSE Ch(LowerLetters, i)) \o Lowered(Tail(s))

\* the options of GET under C15
ReservedOptions == {"up", "down", "lim", "off", "like"}

\* C15: in every SELECT a GET sends, no key of the argument map that equals
\* up, down, lim, off or like without regard to letter case is the field of a
\* filter condition
C15_OptionsAnyCase ==
  cmd.op = "GET" =>
    \A q \in StmtsOf(sent, "SELECT") :
      \A k \in DOMAIN cmd.args : Lowered(k) \in ReservedOptions => CondsOn(q, k) = {}

\* the aggregate forms of GET
AggregateNames == {"count", "min", "max", "avg", "sum"}

AggregateKeys(args) == {k \in DOMAIN args : Lowered(k) \in AggregateNames}

\* C16: a GET with two or more aggregate keys ends in an error and sends no
\* SELECT; in every SELECT of a GET with a single aggregate key that key is not
\* the field of a filter condition
C16_OneAggregate ==
  cmd.op = "GET" /\ CurrentTable # "" =>
    /\ Cardinality(AggregateKeys(cmd.args)) >= 2 =>
         err # "none" /\ StmtsOf(sent, "SELECT") = {}
    /\ \A q \in StmtsOf(sent, "SELECT") :
         \A k \in AggregateKeys(cmd.args) : CondsOn(q, k) = {}

\* an id Range whose low bound is above its high bound
DescendingId(args) ==
  /\ "id" \in DOMAIN args
  /\ args["id"].kind = "range"
  /\ ~DecLeq(args["id"].lo, args["id"].hi)

RangeErrors == {"invalid range format", "invalid range start", "invalid range end"}

C18_ColumnsRefetched ==
  [][(cmd'.op = "UPDATE" /\ classified') =>
       \A k \in DOMAIN cmd'.args \ {"id"} :
         cmd'.args[k].kind = "list" =>
           /\ (k \in DOMAIN filterFields') <=> (k \in ColSet(CurrentTbl))
           /\ (k \in DOMAIN updateFields') <=> (k \notin ColSet(CurrentTbl))]_vars

\* an UPDATE has classified a List on nf, a column an earlier command created,
\* as a filter
C18_Witness ==
  /\ cmd.op = "UPDATE" /\ classified
  /\ "nf" \in DOMAIN filterFields
  /\ filterFields["nf"].kind = "list"
  /\ \A t \in TableIds : "nf" \notin ColSet(InitStore[t])

(***************************************************************************)
(* The session context, checked under Spec.                                *)
(***************************************************************************)
\* C19: a step changes CurrentDB or CurrentTable only if it is a USE that
\* returned no error; every statement of a CREATE, GET, UPDATE or DELETE names
\* the table selected when the command runs, and no other table of the server
\* is changed by it
C19_ContextOnlyByUse ==
  [][/\ (CurrentDB' # CurrentDB \/ CurrentTable' # CurrentTable) =>
          (cmd'.op = "USE" /\ err' = "none")
     /\ cmd'.op \in CrudOps =>
          /\ \A i \in 1..Len(sent') : sent'[i].table = CurrentTable
          /\ \A t \in TableIds \ {Here} : store'[t] = store[t]]_vars

\* a USE that failed with a database and a table selected, which are still selected
C19_Witness ==
  /\ cmd.op = "USE" /\ err # "none"
  /\ CurrentDB = "blog" /\ CurrentTable = "posts"

(***************************************************************************)
(* The command history, checked under HistorySpec.                         *)
(***************************************************************************)
Elems(seq) == {seq[i] : i \in 1..Len(seq)}

\* C20: every line GetHistory returns was entered in the context the session
\* is in, so a line entered in one context only is never returned in another
C20_SeparateHistories ==
  \A line \in Elems(GetHistory) : <<CurrentDB, CurrentTable, line>> \in entered

(***************************************************************************)
(* The clauses of an expression, checked under ParserSpec.                 *)
(***************************************************************************)
\* C21: for a field name other than id, names that end in id included, the
\* clause name: (low, high) gives no Range under the key id in the parsed map
C21_RangeOnlyForId ==
  cmd.op = "ParseArg" =>
    \A name \in RangeNames \ {"id"}, rest \in RangeRests :
      cmd.text = RangeText(name, rest) =>
        ~("id" \in DOMAIN parsed.m /\ parsed.m["id"].kind = "range")

(***************************************************************************)
(* The filters of DELETE, checked under Spec.                              *)
(***************************************************************************)
\* the rows of the selected table that the step removes
RowsDeleted == DOMAIN CurrentTbl.rows \ DOMAIN CurrentTbl'.rows

\* C22: every row a DELETE removes satisfies the condition of each key of the
\* argument map, the keys other than id included: DELETE {id: 1, name: 'x'}
\* removes row 1 only if its name is x
C22_DeleteFilters ==
  [][cmd'.op = "DELETE" =>
       \A i \in RowsDeleted :
         \A k \in DOMAIN cmd'.args :
           /\ k \in ColSet(CurrentTbl)
           /\ CondHolds(CurrentTbl.rows[i], FilterCond(k, cmd'.args[k]))]_vars

\* C23: a comma inside a quoted value does not split the clause: the clause
\* name: 's' gives name the whole of s, with or without clauses around it
C23_QuotedCommas ==
  cmd.op = "ParseArg" =>
    \A before \in ClausesBefore, q \in QuoteChars, s \in CommaValues,
       after \in ClausesAfter :
      cmd.text = QuotedText(before, q, s, after) =>
        /\ parsed.err = "none"
        /\ "name" \in DOMAIN parsed.m
        /\ parsed.m["name"] = StrV(s)

\* C24: when a multi-field assignment or a list clause and a later direct
\* clause both give the key a, the map has a once, with the number of the
\* direct clause, whichever way the direct clause was decoded
C24_LastWriteWins ==
  cmd.op = "ParseArg" =>
    \A pair \in OverlapPairs :
      cmd.text = OverlapText(pair) =>
        /\ parsed.err = "none"
        /\ "a" \in DOMAIN parsed.m
        /\ parsed.m["a"] \in {IntV(pair[3]), FloatV(pair[3])}

(***************************************************************************)
(* The options in UPDATE and CREATE, checked under Spec.                   *)
(***************************************************************************)
\* the keys of the values a statement writes
WrittenKeys(stmt) ==
  CASE stmt.op = "INSERT" -> DOMAIN stmt.values
    [] stmt.op = "UPDATE" -> DOMAIN stmt.set
    [] stmt.op = "ALTER"  -> {stmt.col}
    [] OTHER              -> {}

\* C25: in an UPDATE or a CREATE a key that is one of the options up, down,
\* lim, off and like is no update field, no statement sent creates a column of
\* that name or writes a value to it, and the table has no such column after
\* the command unless it had it before
C25_OptionsInMutations ==
  [][cmd'.op \in {"UPDATE", "CREATE"} =>
       \A k \in DOMAIN cmd'.args :
         Lowered(k) \in ReservedOptions =>
           /\ k \notin DOMAIN updateFields'
           /\ \A i \in 1..Len(sent') : k \notin WrittenKeys(sent'[i])
           /\ k \in ColSet(CurrentTbl') => k \in ColSet(CurrentTbl)]_vars

(***************************************************************************)
(* The columns of the free-text search, checked under Spec.                *)
(***************************************************************************)
\* the text-typed columns of the selected table, in the order of the table
TextCols == SelectSeq(CurrentTbl.cols, TextTyped)

\* C26: the LIKE clause of a SELECT with an explicit projection ranges over
\* the projection columns, that of a SELECT without one over the text-typed
\* columns of the table and no other, and never over no column at all
C26_LikeColumns ==
  cmd.op = "GET" =>
    \A q \in StmtsOf(sent, "SELECT") :
      \A n \in 1..Len(q.like) :
        /\ q.like[n].cols = IF q.star THEN TextCols ELSE q.cols
        /\ Len(q.like[n].cols) > 0

(***************************************************************************)
(* The schema after a failed mutation, checked under Spec.                 *)
(***************************************************************************)
\* C27: an UPDATE or a CREATE that passed resolution and ended in an error
\* (no row matched, or the server rejected the write) leaves the columns of
\* the table as they were before the command
C27_SchemaKeptOnError ==
  [][(/\ cmd'.op \in {"UPDATE", "CREATE"}
      /\ err' # "none"
      /\ err' \notin ResolutionErrors)
     => CurrentTbl'.cols = CurrentTbl.cols]_vars

(***************************************************************************)
(* The session context over a sequence of commands, checked under Spec.    *)
(***************************************************************************)
\* C28: after every step a selected table has a selected database and is a
\* table of that database; a USE that switched the database leaves no table
\* selected; and a table is newly selected only while a database is selected,
\* which stays the selected one
C28_SessionContext ==
  [][/\ CurrentTable' # "" => (CurrentDB' # "" /\ CurrentTable' \in TablesOf(CurrentDB'))
     /\ (cmd'.op = "USE" /\ err' = "none" /\ cmd'.name \in Databases) =>
          (CurrentDB' = cmd'.name /\ CurrentTable' = "")
     /\ (CurrentTable' # "" /\ CurrentTable' # CurrentTable) =>
          (CurrentDB # "" /\ CurrentDB' = CurrentDB)]_vars

\* a switch to the database blog after commands were run on a table selected
\* before it: no table is selected now
C28_Witness ==
  /\ cmd.op = "USE" /\ cmd.name = "blog" /\ err = "none"
  /\ ncmd > 0
  /\ store[<<"shop", "users">>] # InitStore[<<"shop", "users">>]
  /\ CurrentDB = "blog" /\ CurrentTable = ""

(***************************************************************************)
(* The namespace of the history, checked under Spec.                       *)
(***************************************************************************)
\* C29: at the start and after every command the current namespace of the
\* history is global when no database is selected, the name of the database
\* when no table is selected, and database:table otherwise
C29_NamespaceTracksContext ==
  currentNamespace =
    IF CurrentDB = "" THEN "global"
    ELSE IF CurrentTable = "" THEN CurrentDB
    ELSE CurrentDB \o ":" \o CurrentTable

\* a USE has selected the table posts of blog, and the namespace has followed
C29_Witness ==
  /\ cmd.op = "USE" /\ cmd.name = "posts" /\ err = "none"
  /\ CurrentDB = "blog" /\ CurrentTable = "posts"
  /\ currentNamespace = "blog:posts"

(***************************************************************************)
(* The bound of the history, checked under HistoryCallsSpec.               *)
(***************************************************************************)
\* the last n entries of a sequence, in their order
MostRecent(seq, n) ==
  IF Len(seq) <= n THEN seq ELSE [i \in 1..n |-> seq[Len(seq) - n + i]]

\* a list with at most MaxHist entries, none empty, no two neighbours equal
WellFormed(h) ==
  /\ Len(h) <= MaxHist
  /\ \A i \in 1..Len(h) : h[i] # ""
  /\ \A i \in 1..(Len(h) - 1) : h[i] # h[i + 1]

\* C30: after every call each namespace holds at most MaxHist entries, no
\* empty command and no two equal neighbours; AddHistory leaves the lists of
\* the other namespaces alone, leaves the current one alone for an empty
\* command or a repeat of its last entry, and otherwise makes it the most
\* recent MaxHist entries of the old list followed by the command
C30_HistoryBound ==
  [][/\ \A ns \in DOMAIN histories' : WellFormed(histories'[ns])
     /\ cmd'.op = "AddHistory" =>
          /\ \A ns \in (DOMAIN histories \cup DOMAIN histories') \ {currentNamespace} :
               HistoryOf(histories', ns) = HistoryOf(histories, ns)
          /\ HistoryOf(histories', currentNamespace) =
               IF \/ cmd'.text = ""
                  \/ /\ Len(GetHistory) > 0
                     /\ GetHistory[Len(GetHistory)] = cmd'.text
               THEN GetHistory
               ELSE MostRecent(Append(GetHistory, cmd'.text), MaxHist)]_vars

\* the list of the current namespace is full and a command added to it
\* earlier is no longer in it: the oldest entry was dropped
C30_Witness ==
  /\ cmd.op = "AddHistory"
  /\ Len(GetHistory) = MaxHist
  /\ GetHistory[MaxHist] = cmd.text
  /\ \E e \in entered : e[1] = currentNamespace /\ e[2] # "" /\ e[2] \notin Elems(GetHistory)
====
